---- MODULE Spec2Model ----
(***************************************************************************)
(* A model of mywellness2tcx (src/src/App.tsx): the three normalisers     *)
(* (single-workout JSON with its heart-rate interpolation, indoor and      *)
(* outdoor lists), the two encoders workoutToTCX and workoutToFIT, and the *)
(* two import flows of the App (pasted JSON, ZIP archive), run to their    *)
(* end and interleaved, the sport classification, the option toggles of    *)
(* an imported list and the download of the whole list.                    *)
(*                                                                         *)
(* JavaScript numbers are modelled as exact rationals [n |-> Int, d |->    *)
(* Int] in lowest terms with d > 0, so that Math.round, Math.floor and the *)
(* divisions of the code are computed, not assumed.  An optional value     *)
(* (T | undefined) is the empty tuple <<>> or the one-element tuple <<v>>. *)
(***************************************************************************)
EXTENDS Integers, Sequences, FiniteSets

VARIABLES
    pc,                        \* "input", "parsed", "exported", "pasted", "zipped", "listed", "toggled", "archived"; a function on its own: "call", "returned"
    jsonInput,                 \* the JSON box: the pasted single-workout payload, if any; in the import flows its text
    workouts,                  \* App state: the list of normalised Workouts
    fitOut,                    \* the last FIT export: its enhancedCompatibility argument and its messages
    tcxOut,                    \* the last TCX export: the document workoutToTCX returned
    fnArgs,                    \* a function run on its own: its arguments; an import handler: what it ran on; interleaved imports: the calls in flight
    fnResult,                  \* a function run on its own: its result, once it has run; an import: the archive entries it read
    error,                     \* App state: the error shown, if any
    zipName,                   \* App state: the name of the import, if any
    didParse,                  \* App state: whether an import has produced workouts
    lastImportMode             \* App state: "zip" or "json" after an import, if any

vars == <<pc, jsonInput, workouts, fitOut, tcxOut, fnArgs, fnResult,
          error, zipName, didParse, lastImportMode>>

-----------------------------------------------------------------------------
(* Optional values and numbers *)

Undef == <<>>

Some(v) == <<v>>

IsDef(o) == o # <<>>

Val(o) == o[1]

\* a ?? b
OrElse(o, alt) == IF IsDef(o) THEN o ELSE alt

Abs(x) == IF x < 0 THEN -x ELSE x

RECURSIVE Gcd(_, _)
Gcd(a, b) == IF b = 0 THEN a ELSE Gcd(b, a % b)

\* the number n/d (d > 0) in lowest terms
Q(n, d) == LET g == Gcd(Abs(n), d) IN [n |-> n \div g, d |-> d \div g]

Num(k) == [n |-> k, d |-> 1]

QAdd(a, b) == Q(a.n * b.d + b.n * a.d, a.d * b.d)

QSub(a, b) == Q(a.n * b.d - b.n * a.d, a.d * b.d)

QMul(a, b) == Q(a.n * b.n, a.d * b.d)

\* a / b for b # 0
QDiv(a, b) == IF b.n > 0 THEN Q(a.n * b.d, a.d * b.n) ELSE Q(-(a.n * b.d), -(a.d * b.n))

QLe(a, b) == a.n * b.d <= b.n * a.d

QLt(a, b) == a.n * b.d < b.n * a.d

\* Math.round: the nearest integer, halves towards +infinity
MathRound(a) == Num((2 * a.n + a.d) \div (2 * a.d))

MathFloor(a) == Num(a.n \div a.d)

MathMax(a, b) == IF QLe(a, b) THEN b ELSE a

MathMin(a, b) == IF QLe(a, b) THEN a ELSE b

RECURSIVE SumSeq(_)
SumSeq(s) == IF s = <<>> THEN Num(0) ELSE QAdd(Head(s), SumSeq(Tail(s)))

RECURSIVE MaxSeq(_)
MaxSeq(s) == IF Len(s) = 1 THEN s[1] ELSE MathMax(s[1], MaxSeq(Tail(s)))

\* average(values): undefined for no values, else sum / length
average(values) ==
    IF Len(values) = 0 THEN Undef ELSE Some(QDiv(SumSeq(values), Num(Len(values))))

\* metrics[key] of a Record<string, number>: undefined when the key is absent
Get(metrics, key) == IF key \in DOMAIN metrics THEN Some(metrics[key]) ELSE Undef

\* the position a point takes in an array already sorted by tSec: after
\* every element that does not compare greater (Array.prototype.sort is stable)
RECURSIVE InsertByTSec(_, _)
InsertByTSec(sorted, p) ==
    IF sorted = <<>> THEN <<p>>
    ELSE IF QLt(p.tSec, Head(sorted).tSec) THEN <<p>> \o sorted
    ELSE <<Head(sorted)>> \o InsertByTSec(Tail(sorted), p)

\* [...xs].sort((a, b) => a.tSec - b.tSec), by insertion
RECURSIVE SortLoop(_)
SortLoop(s) ==
    IF s = <<>> THEN <<>>
    ELSE InsertByTSec(SortLoop(SubSeq(s, 1, Len(s) - 1)), s[Len(s)])

\* the copy left in input order: no sort
SortByTSec_InputOrder(s) == s

\* [...xs].sort((a, b) => a.tSec - b.tSec)
SortByTSec(s) == SortLoop(s)

\* x.toFixed(1): x to one decimal, a tie away from zero
ToFixed1(x) ==
    IF x.n >= 0 THEN Q((20 * x.n + x.d) \div (2 * x.d), 10)
    ELSE Q(-((20 * (-x.n) + x.d) \div (2 * x.d)), 10)

\* new Date(s).getTime(): the epoch milliseconds of an ISO timestamp, NaN
\* (undefined here) for any other text
DateParse(s) ==
    IF s.kind = "iso"
    THEN Some((((s.day * 24 + s.h) * 60 + s.m) * 60 + s.s) * 1000 + s.ms)
    ELSE Undef

\* new Date(ms).toISOString(): the timestamp's text, as its components
toISOString(ms) ==
    [kind |-> "iso",
     day |-> ms \div 86400000,
     h |-> (ms % 86400000) \div 3600000,
     m |-> (ms % 3600000) \div 60000,
     s |-> (ms % 60000) \div 1000,
     ms |-> ms % 1000]

\* a text that is no timestamp, and the empty text
Text(kind) == [kind |-> kind, day |-> 0, h |-> 0, m |-> 0, s |-> 0, ms |-> 0]

-----------------------------------------------------------------------------
(* extractWorkoutFromSinglePageJSON: heart-rate anchors and interpolation *)

\* hrByT.set(k, v) on a Map kept as its entries in insertion order: an
\* existing key keeps its place and takes the new value
MapSet(entries, k, v) ==
    IF \E i \in 1..Len(entries) : entries[i].tSec = k
    THEN [i \in 1..Len(entries) |->
            IF entries[i].tSec = k THEN [tSec |-> k, hr |-> v] ELSE entries[i]]
    ELSE Append(entries, [tSec |-> k, hr |-> v])

\* the loop over analitics.hr: an entry whose t or hr is not a finite number
\* is skipped, the others are keyed by Math.round(t)
RECURSIVE hrByT(_)
hrByT(hrSamples) ==
    IF hrSamples = <<>> THEN <<>>
    ELSE LET rest == hrByT(SubSeq(hrSamples, 1, Len(hrSamples) - 1))
             h == hrSamples[Len(hrSamples)]
         IN IF IsDef(h.t) /\ IsDef(h.hr)
            THEN MapSet(rest, MathRound(Val(h.t)), Val(h.hr))
            ELSE rest

\* [...hrByT.entries()].map(...).sort((a, b) => a.tSec - b.tSec)
hrAnchors(hrSamples) == SortByTSec(hrByT(hrSamples))

\* Interpolate with the ratio taken from the start of the workout, not from a
Interpolate_RatioFromZero(a, b, tSec) ==
    LET span == QSub(b.tSec, a.tSec)
    IN IF QLe(span, Num(0)) THEN b.hr
       ELSE QAdd(a.hr, QMul(QSub(b.hr, a.hr), QDiv(tSec, span)))

\* a.hr + (b.hr - a.hr) * ratio with ratio = (tSec - a.tSec) / span
Interpolate(a, b, tSec) ==
    LET span == QSub(b.tSec, a.tSec)
    IN IF QLe(span, Num(0)) THEN b.hr
       ELSE LET ratio == QDiv(QSub(tSec, a.tSec), span)
            IN QAdd(a.hr, QMul(QSub(b.hr, a.hr), ratio))

\* for (let i = 1; i < anchors.length; i++) { if (tSec <= b.tSec) return ... }
\* return last.hr (i counts from 2 here: sequences start at 1)
RECURSIVE hrAtLoop(_, _, _)
hrAtLoop(anchors, tSec, i) ==
    IF i > Len(anchors) THEN anchors[Len(anchors)].hr
    ELSE IF QLe(tSec, anchors[i].tSec) THEN Interpolate(anchors[i - 1], anchors[i], tSec)
    ELSE hrAtLoop(anchors, tSec, i + 1)

\* hrAt without the clamp before the first anchor: it extrapolates there
hrAt_NoClampBefore(anchors, tSec) ==
    IF Len(anchors) = 0 THEN Undef
    ELSE IF Len(anchors) = 1 THEN Some(anchors[1].hr)
    ELSE IF QLe(anchors[Len(anchors)].tSec, tSec) THEN Some(anchors[Len(anchors)].hr)
    ELSE Some(hrAtLoop(anchors, tSec, 2))

\* hrAt of extractWorkoutFromSinglePageJSON, over its hrAnchors
hrAt(anchors, tSec) ==
    IF Len(anchors) = 0 THEN Undef
    ELSE IF Len(anchors) = 1 THEN Some(anchors[1].hr)
    ELSE IF QLe(tSec, anchors[1].tSec) THEN Some(anchors[1].hr)
    ELSE IF QLe(anchors[Len(anchors)].tSec, tSec) THEN Some(anchors[Len(anchors)].hr)
    ELSE Some(hrAtLoop(anchors, tSec, 2))

-----------------------------------------------------------------------------
(* Reading the payload: strings, units, descriptors *)

\* s.toLowerCase() (and trim()), for the names and units the payloads carry
LowerCase(s) ==
    CASE s = "Power" -> "power"
      [] s = "RPM" -> "rpm"
      [] s = "Floors" -> "floors"
      [] s = "HDistance" -> "hdistance"
      [] s = "Speed" -> "speed"
      [] s = "Duration" -> "duration"
      [] s = "Move" -> "move"
      [] s = "Calories" -> "calories"
      [] s = "Elevation" -> "elevation"
      [] s = "Km" -> "km"
      [] s = " M " -> "m"
      [] OTHER -> s

\* s.includes(sub), for lower-case s among the names above
Includes(s, sub) ==
    \/ s = sub
    \/ s = "hdistance" /\ sub = "distance"

\* toMetersFromUnit(value, unitRaw): unitRaw is a string or undefined
toMetersFromUnit(value, unitRaw) ==
    LET unit == IF IsDef(unitRaw) THEN LowerCase(Val(unitRaw)) ELSE ""
    IN IF unit \in {"km", "kilometer", "kilometers"} THEN QMul(value, Num(1000))
       ELSE IF unit \in {"mi", "mile", "miles", "mls"} THEN QMul(value, Q(1609344, 1000))
       ELSE IF unit \in {"ft", "foot", "feet"} THEN QMul(value, Q(3048, 10000))
       ELSE value

\* asNumberArray(v): the entries that are finite numbers, in order, the
\* others dropped (an entry that is no number is <<>> here)
RECURSIVE asNumberArray(_)
asNumberArray(v) ==
    IF v = <<>> THEN <<>>
    ELSE IF IsDef(Head(v)) THEN <<Val(Head(v))>> \o asNumberArray(Tail(v))
    ELSE asNumberArray(Tail(v))

\* descriptorByIndex.get(idx): the name of the last descriptor with i = idx
\* and a non-empty name (Map.set in the loop over analitics.descriptor)
RECURSIVE descriptorByIndex(_, _)
descriptorByIndex(descriptors, idx) ==
    IF descriptors = <<>> THEN Undef
    ELSE LET d == descriptors[Len(descriptors)]
         IN IF d.i = Some(Num(idx)) /\ IsDef(d.name) /\ Val(d.name) # ""
            THEN d.name
            ELSE descriptorByIndex(SubSeq(descriptors, 1, Len(descriptors) - 1), idx)

\* descriptorUnitByIndex.get(idx): likewise for the unit pr.um
RECURSIVE descriptorUnitByIndex(_, _)
descriptorUnitByIndex(descriptors, idx) ==
    IF descriptors = <<>> THEN Undef
    ELSE LET d == descriptors[Len(descriptors)]
         IN IF d.i = Some(Num(idx)) /\ IsDef(d.um) /\ Val(d.um) # ""
            THEN d.um
            ELSE descriptorUnitByIndex(SubSeq(descriptors, 1, Len(descriptors) - 1), idx)

\* the body of for (let idx = 0; idx < vs.length; idx++) on the point, for
\* idx = k - 1 onwards: watts, cadence and verticalM by the descriptor's name
RECURSIVE DecodeVs(_, _, _, _)
DecodeVs(point, vs, descriptors, k) ==
    IF k > Len(vs) THEN point
    ELSE LET name == descriptorByIndex(descriptors, k - 1)
             key == IF IsDef(name) THEN LowerCase(Val(name)) ELSE ""
             value == vs[k]
             p1 == IF key \in {"power", "runningpower"}
                   THEN [point EXCEPT !.watts = Some(value)] ELSE point
             p2 == IF key \in {"spm", "rpm", "cadence", "runningcadence"}
                   THEN [p1 EXCEPT !.cadence = Some(value)] ELSE p1
             p3 == IF key \in {"floors", "elevation"}
                   THEN [p2 EXCEPT !.verticalM =
                            Some(toMetersFromUnit(value, descriptorUnitByIndex(descriptors, k - 1)))]
                   ELSE p2
         IN DecodeVs(p3, vs, descriptors, k + 1)

\* the distances a sample carries (key hdistance or distance), in metres
RECURSIVE VsDistances(_, _, _)
VsDistances(vs, descriptors, k) ==
    IF k > Len(vs) THEN <<>>
    ELSE LET name == descriptorByIndex(descriptors, k - 1)
             key == IF IsDef(name) THEN LowerCase(Val(name)) ELSE ""
         IN (IF key \in {"hdistance", "distance"}
             THEN <<toMetersFromUnit(vs[k], descriptorUnitByIndex(descriptors, k - 1))>>
             ELSE <<>>) \o VsDistances(vs, descriptors, k + 1)

\* sampleDistanceM after the loop over analitics.samples: the largest
\* distance of the samples that have a numeric t, undefined without any
RECURSIVE sampleDistanceM(_, _)
sampleDistanceM(samples, descriptors) ==
    IF samples = <<>> THEN Undef
    ELSE LET rest == sampleDistanceM(Tail(samples), descriptors)
             mine == IF IsDef(Head(samples).t)
                     THEN VsDistances(asNumberArray(Head(samples).vs), descriptors, 1)
                     ELSE <<>>
         IN IF mine = <<>> THEN rest
            ELSE IF IsDef(rest) THEN Some(MathMax(MaxSeq(mine), Val(rest)))
            ELSE Some(MaxSeq(mine))

-----------------------------------------------------------------------------
(* extractWorkoutFromSinglePageJSON: the series, the summary, the Workout *)

\* SamplePoint taking hr only where an anchor has exactly the point's timestamp
SamplePoint_ExactMatch(anchors, descriptors, sample) ==
    LET tSec == MathMax(Num(0), MathRound(Val(sample.t)))
        hits == {i \in 1..Len(anchors) : anchors[i].tSec = tSec}
    IN [tSec |-> tSec,
        hr |-> IF hits = {} THEN Undef ELSE Some(MathRound(anchors[CHOOSE i \in hits : TRUE].hr)),
        watts |-> Undef, cadence |-> Undef, verticalM |-> Undef]

\* one sample of analitics.samples becomes one SeriesPoint:
\* tSec = max(0, round(t)), the channels of vs, hr = round(hrAt(tSec)) when hrAt gives a value
SamplePoint(anchors, descriptors, sample) ==
    LET tSec == MathMax(Num(0), MathRound(Val(sample.t)))
        hr == hrAt(anchors, tSec)
        point == DecodeVs([tSec |-> tSec, hr |-> Undef, watts |-> Undef,
                           cadence |-> Undef, verticalM |-> Undef],
                          asNumberArray(sample.vs), descriptors, 1)
    IN [point EXCEPT !.hr = IF IsDef(hr) THEN Some(MathRound(Val(hr))) ELSE Undef]

\* the loop over analitics.samples: a sample without a numeric t is skipped
RECURSIVE SamplePoints(_, _, _)
SamplePoints(anchors, descriptors, samples) ==
    IF samples = <<>> THEN <<>>
    ELSE IF IsDef(Head(samples).t)
    THEN <<SamplePoint(anchors, descriptors, Head(samples))>>
         \o SamplePoints(anchors, descriptors, Tail(samples))
    ELSE SamplePoints(anchors, descriptors, Tail(samples))

\* the series of the returned Workout: the points, then series.sort(by tSec)
ExtractSeries(json) == SortByTSec(SamplePoints(hrAnchors(json.hr), json.descriptor, json.samples))

\* series.map((p) => p[channel]).filter((x) => x != null)
RECURSIVE ChannelValues(_, _)
ChannelValues(series, channel) ==
    IF series = <<>> THEN <<>>
    ELSE IF IsDef(Head(series)[channel])
    THEN <<Val(Head(series)[channel])>> \o ChannelValues(Tail(series), channel)
    ELSE ChannelValues(Tail(series), channel)

\* series.map((p) => p.hr).filter((x) => x != null)
hrValuesOf(series) == ChannelValues(series, "hr")

\* m1 extended by the keys of m2 (metrics[key] = value for each)
Merge(m1, m2) ==
    [k \in DOMAIN m1 \cup DOMAIN m2 |-> IF k \in DOMAIN m2 THEN m2[k] ELSE m1[k]]

NoMetrics == [k \in {} |-> Num(0)]

\* the one-key map {key: value} when the value is defined, else the empty map
Entry(key, o) == IF IsDef(o) THEN [k \in {key} |-> Val(o)] ELSE NoMetrics

\* parseDurationString(s): s given as its parts between the colons, each as
\* Number() reads it (<<>> for a part that is no finite number)
parseDurationString(parts) ==
    IF Len(parts) = 2 /\ IsDef(parts[1]) /\ IsDef(parts[2])
    THEN Some(QAdd(QMul(Val(parts[1]), Num(60)), Val(parts[2])))
    ELSE IF Len(parts) = 3 /\ IsDef(parts[1]) /\ IsDef(parts[2]) /\ IsDef(parts[3])
    THEN Some(QAdd(QAdd(QMul(Val(parts[1]), Num(3600)), QMul(Val(parts[2]), Num(60))),
                   Val(parts[3])))
    ELSE Undef

\* one turn of the loop over core.data on the running summary values
SummaryStep(acc, item) ==
    LET property == IF IsDef(item.property) THEN LowerCase(Val(item.property)) ELSE ""
        name == IF IsDef(item.name) THEN LowerCase(Val(item.name)) ELSE ""
        rawValue == item.rawValue
        fromText == IF IsDef(item.value) THEN parseDurationString(Val(item.value)) ELSE Undef
        a1 == IF Includes(property, "duration") \/ Includes(name, "duration")
              THEN [acc EXCEPT !.durationSec =
                       OrElse(fromText,
                              IF IsDef(rawValue) THEN Some(MathRound(QMul(Val(rawValue), Num(60))))
                              ELSE acc.durationSec)]
              ELSE acc
        a2 == IF Includes(property, "move") \/ Includes(name, "move")
              THEN [a1 EXCEPT !.move = rawValue] ELSE a1
        a3 == IF (Includes(property, "distance") \/ Includes(property, "hdistance")
                    \/ Includes(name, "distance")) /\ IsDef(rawValue)
              THEN [a2 EXCEPT !.summaryDistanceM = Some(toMetersFromUnit(Val(rawValue), item.uM))]
              ELSE a2
        a4 == IF (Includes(property, "elevation") \/ Includes(property, "floors")
                    \/ Includes(name, "elevation")) /\ IsDef(rawValue)
              THEN [a3 EXCEPT !.summaryVerticalM = Some(toMetersFromUnit(Val(rawValue), item.uM))]
              ELSE a3
    IN IF Includes(property, "calories") \/ Includes(name, "calories")
       THEN [a4 EXCEPT !.calories = rawValue] ELSE a4

\* the loop over core.data, from durationSec = the last point's tSec
RECURSIVE Summary(_, _)
Summary(series, summaryData) ==
    IF summaryData = <<>>
    THEN [durationSec |-> IF Len(series) > 0 THEN Some(series[Len(series)].tSec) ELSE Undef,
          move |-> Undef, summaryDistanceM |-> Undef, summaryVerticalM |-> Undef,
          calories |-> Undef]
    ELSE SummaryStep(Summary(series, SubSeq(summaryData, 1, Len(summaryData) - 1)),
                     summaryData[Len(summaryData)])

\* ExtractMetrics with AvgHr taken over the first and the last point only
ExtractMetrics_EndsOnly(series, summary, sampleDist) ==
    LET hrValues == hrValuesOf(series)
    IN IF Len(hrValues) > 0
       THEN [k \in {"Duration", "AvgHr", "MaxHr"} |->
               IF k = "Duration" THEN series[Len(series)].tSec
               ELSE IF k = "AvgHr"
               THEN Val(average(<<hrValues[1], hrValues[Len(hrValues)]>>))
               ELSE MaxSeq(hrValues)]
       ELSE NoMetrics

\* the metrics map of the returned Workout: Duration, Move, AvgHr, MaxHr,
\* AvgPower, AvgSpm, Floors, HDistance, each only when there is a value
ExtractMetrics(series, summary, sampleDist) ==
    LET hrValues == hrValuesOf(series)
        powerValues == ChannelValues(series, "watts")
        cadenceValues == ChannelValues(series, "cadence")
        verticalValues == ChannelValues(series, "verticalM")
        hrm == IF Len(hrValues) > 0
               THEN [k \in {"AvgHr", "MaxHr"} |->
                       IF k = "AvgHr" THEN Val(average(hrValues)) ELSE MaxSeq(hrValues)]
               ELSE NoMetrics
        floors == IF Len(verticalValues) > 0 THEN Some(MaxSeq(verticalValues))
                  ELSE summary.summaryVerticalM
    IN Merge(Entry("Duration", summary.durationSec),
       Merge(Entry("Move", summary.move),
       Merge(hrm,
       Merge(Entry("AvgPower", average(powerValues)),
       Merge(Entry("AvgSpm", average(cadenceValues)),
       Merge(Entry("Floors", floors),
             Entry("HDistance", OrElse(sampleDist, summary.summaryDistanceM))))))))

\* pickDistanceM with || in place of ??: a stored 0 counts as absent
pickDistanceM_ZeroIsAbsent(metrics) ==
    LET Truthy(o) == IF IsDef(o) /\ Val(o) # Num(0) THEN o ELSE Undef
    IN  OrElse(Truthy(Get(metrics, "HDistance")),
        OrElse(Truthy(Get(metrics, "Distance")),
        OrElse(Truthy(Get(metrics, "DistanceMeters")),
               IF IsDef(Get(metrics, "Km")) THEN Some(QMul(metrics["Km"], Num(1000))) ELSE Undef)))

\* metrics["HDistance"] ?? metrics["Distance"] ?? metrics["DistanceMeters"]
\*   ?? (metrics["Km"] != null ? metrics["Km"] * 1000 : undefined)
pickDistanceM(metrics) ==
    OrElse(Get(metrics, "HDistance"),
    OrElse(Get(metrics, "Distance"),
    OrElse(Get(metrics, "DistanceMeters"),
           IF IsDef(Get(metrics, "Km")) THEN Some(QMul(metrics["Km"], Num(1000))) ELSE Undef)))

\* pickVerticalM preferring Floors over Elevation
pickVerticalM_FloorsFirst(metrics) == OrElse(Get(metrics, "Floors"), Get(metrics, "Elevation"))

\* metrics["Elevation"] ?? metrics["Floors"]
pickVerticalM(metrics) == OrElse(Get(metrics, "Elevation"), Get(metrics, "Floors"))

\* metrics["AvgSpm"] ?? metrics["Cadence"]
pickCadenceSpm(metrics) == OrElse(Get(metrics, "AvgSpm"), Get(metrics, "Cadence"))

\* typeof v === "string", for a field that is absent (<<>>), a string (an ISO
\* timestamp, another text, the empty text) or a value of another type
IsString(v) == IsDef(v) /\ Val(v).kind # "number"

\* preferredStartTime.match(/^(\d{1,2}):(\d{2})(?::(\d{2}))?$/), the text
\* given as its characters: the numbers hh, mm, ss of a match, else <<>>
Digits == {"0", "1", "2", "3", "4", "5", "6", "7", "8", "9"}

DigitValue(c) ==
    CASE c = "0" -> 0 [] c = "1" -> 1 [] c = "2" -> 2 [] c = "3" -> 3 [] c = "4" -> 4
      [] c = "5" -> 5 [] c = "6" -> 6 [] c = "7" -> 7 [] c = "8" -> 8 [] c = "9" -> 9

\* Number() of a run of one or two digits
TwoDigits(s) == IF Len(s) = 1 THEN DigitValue(s[1]) ELSE 10 * DigitValue(s[1]) + DigitValue(s[2])

AllDigits(s) == \A i \in 1..Len(s) : s[i] \in Digits

MatchStartTime(s) ==
    LET colon == IF Len(s) >= 2 /\ s[2] = ":" THEN 2 ELSE 3
        rest == SubSeq(s, colon + 1, Len(s))
    IN IF /\ Len(s) >= colon + 2
          /\ s[colon] = ":"
          /\ AllDigits(SubSeq(s, 1, colon - 1))
          /\ AllDigits(SubSeq(rest, 1, 2))
          /\ \/ Len(rest) = 2
             \/ Len(rest) = 5 /\ rest[3] = ":" /\ AllDigits(SubSeq(rest, 4, 5))
       THEN Some([hh |-> TwoDigits(SubSeq(s, 1, colon - 1)),
                  mm |-> TwoDigits(SubSeq(rest, 1, 2)),
                  ss |-> IF Len(rest) = 5 THEN TwoDigits(SubSeq(rest, 4, 5)) ELSE 0])
       ELSE Undef

\* dt.setHours(hh, mm, ss, 0) on the instant ms, in a zone tzMin minutes
\* ahead of UTC: the local day is kept, the local time of day replaced
setHours(ms, hh, mm, ss, tzMin) ==
    LET localMs == ms + tzMin * 60000
        localDay == localMs \div 86400000
    IN localDay * 86400000 + ((hh * 60 + mm) * 60 + ss) * 1000 - tzMin * 60000

\* startedAtISO with the override applied whatever hours, minutes and seconds it names
startedAtISO_NoRangeCheck(dateStr, preferredStartTime, tzMin) ==
    LET parsedDate == IF IsString(dateStr) /\ Val(dateStr).kind # "empty"
                      THEN DateParse(Val(dateStr)) ELSE Undef
        match == MatchStartTime(preferredStartTime)
    IN IF ~IsDef(parsedDate) THEN Undef
       ELSE IF IsDef(match)
       THEN Some(toISOString(setHours(Val(parsedDate), Val(match).hh, Val(match).mm,
                                      Val(match).ss, tzMin)))
       ELSE Some(toISOString(Val(parsedDate)))

\* startedAtISO of extractWorkoutFromSinglePageJSON: the parsed core.date as
\* toISOString gives it, with the time of day of a valid preferredStartTime
startedAtISO(dateStr, preferredStartTime, tzMin) ==
    LET parsedDate == IF IsString(dateStr) /\ Val(dateStr).kind # "empty"
                      THEN DateParse(Val(dateStr)) ELSE Undef
        match == MatchStartTime(preferredStartTime)
    IN IF ~IsDef(parsedDate) THEN Undef
       ELSE IF /\ preferredStartTime # <<>>
               /\ IsDef(match)
               /\ Val(match).hh < 24 /\ Val(match).mm < 60 /\ Val(match).ss < 60
       THEN Some(toISOString(setHours(Val(DateParse(toISOString(Val(parsedDate)))),
                                      Val(match).hh, Val(match).mm, Val(match).ss, tzMin)))
       ELSE Some(toISOString(Val(parsedDate)))

\* rawStartISO of the encoders: raw.on if a string, else raw.performedDate if a string
rawStartISO(raw) ==
    IF IsString(raw.on) THEN raw.on
    ELSE IF IsString(raw.performedDate) THEN raw.performedDate
    ELSE Undef

\* extractWorkoutFromSinglePageJSON(obj, preferredStartTime) for an object
\* payload, in a zone tzMin minutes ahead of UTC
extractWorkoutFromSinglePageJSON(json, preferredStartTime, tzMin) ==
    LET series == ExtractSeries(json)
        summary == Summary(series, json.data)
        metrics == ExtractMetrics(series, summary,
                                  sampleDistanceM(json.samples, json.descriptor))
        verticalValues == ChannelValues(series, "verticalM")
        cadenceValues == ChannelValues(series, "cadence")
        verticalM == IF Len(verticalValues) > 0 THEN Some(MaxSeq(verticalValues))
                     ELSE summary.summaryVerticalM
    IN [source |-> "indoor",
        startedAtISO |-> startedAtISO(json.date, preferredStartTime, tzMin),
        rawStartISO |-> rawStartISO(json),
        series |-> series,
        durationSec |-> summary.durationSec,
        calories |-> summary.calories,
        distanceM |-> pickDistanceM(metrics),
        verticalM |-> verticalM,
        cadenceSpm |-> average(cadenceValues),
        metrics |-> metrics,
        exportOpts |-> [includeHrSeries |-> Len(hrValuesOf(series)) > 0,
                        includeCadenceSeries |-> Len(cadenceValues) > 0,
                        includePowerSeries |-> Len(ChannelValues(series, "watts")) > 0,
                        includeMetricsInNotes |-> FALSE,
                        includeCalories |-> IsDef(summary.calories),
                        includeDistance |-> IsDef(pickDistanceM(metrics)),
                        includeVerticalAsAltitude |-> IsDef(verticalM)]]

-----------------------------------------------------------------------------
(* prToMap and the list normalisers *)

\* JSON scalars: a number, a string, null
JNum(q) == [type |-> "number", num |-> q, str |-> ""]

JStr(s) == [type |-> "string", num |-> Num(0), str |-> s]

JNull == [type |-> "null", num |-> Num(0), str |-> ""]

\* Number(s) for the strings the payloads carry: NaN and Infinity are <<>>
NumberOf(s) ==
    CASE s = "12" -> Some(Num(12))
      [] s = "4.5" -> Some(Q(9, 2))
      [] s = " 7 " -> Some(Num(7))
      [] s = "" -> Some(Num(0))
      [] s = "1e2" -> Some(Num(100))
      [] OTHER -> Undef

\* safeNumber giving 0 for what is no finite number
safeNumber_NaNAsZero(v) ==
    IF ~IsDef(v) THEN Undef
    ELSE IF Val(v).type = "number" THEN Some(Val(v).num)
    ELSE IF Val(v).type = "string" THEN OrElse(NumberOf(Val(v).str), Some(Num(0)))
    ELSE Some(Num(0))

\* safeNumber(v): a number as it is, a string through Number(), anything
\* else NaN; undefined unless finite (v absent is <<>>)
safeNumber(v) ==
    IF ~IsDef(v) THEN Undef
    ELSE IF Val(v).type = "number" THEN Some(Val(v).num)
    ELSE IF Val(v).type = "string" THEN NumberOf(Val(v).str)
    ELSE Undef

\* the loop of prToMap over the pr array: out[name] = val for each item with
\* a string name n and a finite value v, a later item overwriting an earlier
RECURSIVE PrEntries(_)
PrEntries(pr) ==
    IF pr = <<>> THEN NoMetrics
    ELSE LET item == pr[Len(pr)]
             rest == PrEntries(SubSeq(pr, 1, Len(pr) - 1))
         IN IF IsDef(item.n) /\ IsDef(safeNumber(item.v))
            THEN Merge(rest, Entry(Val(item.n), safeNumber(item.v)))
            ELSE rest

\* x?.pr for x = asRecord(raw.performedData) and the like: x is <<>> unless an object
PrOf(x, key) == IF IsDef(x) THEN Val(x)[key] ELSE Undef

\* prToMap(raw): pr is performedData?.pr ?? physicalActivityData?.pr ??
\* performedData?.PR ?? physicalActivityData?.PR; the empty map unless an array
prToMap(raw) ==
    LET pr == IF raw.isObject
              THEN OrElse(PrOf(raw.performedData, "pr"),
                   OrElse(PrOf(raw.physicalActivityData, "pr"),
                   OrElse(PrOf(raw.performedData, "PR"),
                          PrOf(raw.physicalActivityData, "PR"))))
              ELSE Undef
    IN IF IsDef(pr) /\ Val(pr).isArray THEN PrEntries(Val(pr).items) ELSE NoMetrics

\* rawRec?.key: undefined unless raw is an object
FieldOf(raw, key) == IF raw.isObject THEN raw[key] ELSE Undef

\* the list normalisers' exportOpts with the notes option following the metrics
ListExportOpts_NotesFollowMetrics(metrics, caloriesV, distanceV, verticalV, cadenceV) ==
    [includeHrSeries |-> IsDef(Get(metrics, "AvgHr")) \/ IsDef(Get(metrics, "MaxHr")),
     includeCadenceSeries |-> IsDef(cadenceV) \/ IsDef(Get(metrics, "AvgSpm"))
                                \/ IsDef(Get(metrics, "Cadence")),
     includePowerSeries |-> IsDef(Get(metrics, "AvgPower")),
     includeMetricsInNotes |-> DOMAIN metrics # {},
     includeCalories |-> IsDef(caloriesV),
     includeDistance |-> IsDef(distanceV),
     includeVerticalAsAltitude |-> IsDef(verticalV)]

\* the exportOpts the two list normalisers give
ListExportOpts(metrics, caloriesV, distanceV, verticalV, cadenceV) ==
    [includeHrSeries |-> IsDef(Get(metrics, "AvgHr")) \/ IsDef(Get(metrics, "MaxHr")),
     includeCadenceSeries |-> IsDef(cadenceV) \/ IsDef(Get(metrics, "AvgSpm"))
                                \/ IsDef(Get(metrics, "Cadence")),
     includePowerSeries |-> IsDef(Get(metrics, "AvgPower")),
     includeMetricsInNotes |-> FALSE,
     includeCalories |-> IsDef(caloriesV),
     includeDistance |-> IsDef(distanceV),
     includeVerticalAsAltitude |-> IsDef(verticalV)]

\* the Workout extractWorkoutsFromIndoorJSON makes of one element
IndoorWorkout(raw) ==
    LET metrics == prToMap(raw)
        startedAt == FieldOf(raw, "on")
    IN [source |-> "indoor",
        startedAtISO |-> IF IsString(startedAt) THEN startedAt ELSE Undef,
        rawStartISO |-> IF raw.isObject THEN rawStartISO(raw) ELSE Undef,
        series |-> <<>>,
        durationSec |-> Get(metrics, "Duration"),
        calories |-> Get(metrics, "Calories"),
        distanceM |-> pickDistanceM(metrics),
        verticalM |-> pickVerticalM(metrics),
        cadenceSpm |-> pickCadenceSpm(metrics),
        metrics |-> metrics,
        exportOpts |-> ListExportOpts(metrics, Get(metrics, "Calories"), pickDistanceM(metrics),
                                      pickVerticalM(metrics), pickCadenceSpm(metrics))]

\* extractWorkoutsFromIndoorJSON(obj): items = Array.isArray(obj) ? obj : []
extractWorkoutsFromIndoorJSON(obj) ==
    IF obj.isArray THEN [i \in 1..Len(obj.elems) |-> IndoorWorkout(obj.elems[i])] ELSE <<>>

\* the Workout extractWorkoutsFromOutdoorJSON makes of one element
OutdoorWorkout(raw) ==
    LET metrics == prToMap(raw)
        performedDate == FieldOf(raw, "performedDate")
        startedAt == IF IsDef(performedDate) THEN performedDate ELSE FieldOf(raw, "on")
        durationV == OrElse(Get(metrics, "Duration"),
                     OrElse(safeNumber(FieldOf(raw, "duration")),
                            safeNumber(FieldOf(raw, "Duration"))))
        caloriesV == OrElse(Get(metrics, "Calories"),
                     OrElse(safeNumber(FieldOf(raw, "calories")),
                            safeNumber(FieldOf(raw, "Calories"))))
    IN [source |-> "outdoor",
        startedAtISO |-> IF IsString(startedAt) THEN startedAt ELSE Undef,
        rawStartISO |-> IF raw.isObject THEN rawStartISO(raw) ELSE Undef,
        series |-> <<>>,
        durationSec |-> durationV,
        calories |-> caloriesV,
        distanceM |-> pickDistanceM(metrics),
        verticalM |-> pickVerticalM(metrics),
        cadenceSpm |-> pickCadenceSpm(metrics),
        metrics |-> metrics,
        exportOpts |-> ListExportOpts(metrics, caloriesV, pickDistanceM(metrics),
                                      pickVerticalM(metrics), pickCadenceSpm(metrics))]

\* extractWorkoutsFromOutdoorJSON(obj): items = Array.isArray(obj) ? obj
\*   : (obj?.items ?? obj?.activities ?? obj?.data ?? []); [] unless an array
extractWorkoutsFromOutdoorJSON(obj) ==
    LET items == IF obj.isArray THEN Some([isArray |-> TRUE, items |-> obj.elems])
                 ELSE OrElse(obj.items, OrElse(obj.activities, obj.data))
    IN IF IsDef(items) /\ Val(items).isArray
       THEN [i \in 1..Len(Val(items).items) |-> OutdoorWorkout(Val(items).items[i])]
       ELSE <<>>

-----------------------------------------------------------------------------
(* What both encoders compute first *)

\* startISO = (typeof w.startedAtISO === "string" && w.startedAtISO) || rawStartISO
\*            || new Date().toISOString()
\* with rawStartISO the raw payload's on, else performedDate, when a string
startISO(w, nowMs) ==
    IF IsDef(w.startedAtISO) /\ Val(w.startedAtISO).kind # "empty" THEN Val(w.startedAtISO)
    ELSE IF IsDef(w.rawStartISO) /\ Val(w.rawStartISO).kind # "empty" THEN Val(w.rawStartISO)
    ELSE toISOString(nowMs)

\* startMs read from the wall clock whatever the workout names as its start
startMs_AlwaysClock(w, nowMs) == nowMs

\* Number.isNaN(start.getTime()) ? Date.now() : start.getTime()
startMs(w, nowMs) ==
    IF IsDef(DateParse(startISO(w, nowMs))) THEN Val(DateParse(startISO(w, nowMs))) ELSE nowMs

\* Math.max(0, Math.round(w.durationSec ?? 0))
totalSeconds(w) == MathMax(Num(0), MathRound(Val(OrElse(w.durationSec, Some(Num(0))))))

\* Array.isArray(w.series) && w.series.length > 0 (an absent series is the empty one)
hasSeries(w) == Len(w.series) > 0

\* opts.includeDistance ? w.distanceM : undefined
totalDistanceM(w, opts) == IF opts.includeDistance THEN w.distanceM ELSE Undef

\* opts.includeVerticalAsAltitude && w.verticalM != null ? w.verticalM : undefined
totalVerticalM(w, opts) ==
    IF opts.includeVerticalAsAltitude /\ IsDef(w.verticalM) THEN w.verticalM ELSE Undef

\* workoutToTCX: opts.includeCalories ? w.calories : undefined, written as
\* Math.max(0, Math.round(calories)); workoutToFIT: the same in one expression
calories(w, opts) ==
    IF opts.includeCalories /\ IsDef(w.calories)
    THEN Some(MathMax(Num(0), MathRound(Val(w.calories))))
    ELSE Undef

\* opts.includePowerSeries && avgPower != null ? Math.round(avgPower) : undefined
defaultWatts(w, opts) ==
    IF opts.includePowerSeries /\ IsDef(Get(w.metrics, "AvgPower"))
    THEN Some(MathRound(w.metrics["AvgPower"]))
    ELSE Undef

\* opts.includeCadenceSeries
\*   ? spmFromField ?? (move != null && dur > 0 ? move / (dur / 60) : undefined) : undefined
\* with dur = w.metrics["Duration"] ?? w.durationSec ?? 0
defaultCadence(w, opts) ==
    LET move == Get(w.metrics, "Move")
        dur == Val(OrElse(Get(w.metrics, "Duration"), OrElse(w.durationSec, Some(Num(0)))))
    IN IF opts.includeCadenceSeries
       THEN OrElse(pickCadenceSpm(w.metrics),
                   IF IsDef(move) /\ QLt(Num(0), dur)
                   THEN Some(QDiv(Val(move), QDiv(dur, Num(60))))
                   ELSE Undef)
       ELSE Undef

\* cadence = cadenceSpm != null ? Math.round(cadenceSpm) : undefined
cadence(w, opts) ==
    IF IsDef(defaultCadence(w, opts)) THEN Some(MathRound(Val(defaultCadence(w, opts)))) ELSE Undef

\* seriesTotalSec as the declared duration alone, whatever the last point's tSec
seriesTotalSec_DeclaredOnly(w, sortedSeries) == totalSeconds(w)

\* Math.max(totalSeconds, sortedSeries[sortedSeries.length - 1]?.tSec ?? 0)
seriesTotalSec(w, sortedSeries) == MathMax(totalSeconds(w), sortedSeries[Len(sortedSeries)].tSec)


\* total * (t / totalSec)
ProRate(total, t, totalSec) == QMul(total, QDiv(t, totalSec))

\* dist = totalDistanceM != null && totalSec > 0 ? totalDistanceM * (t / totalSec) : 0
\* (totalSec: seriesTotalSec on the series path, totalSeconds on the synthetic one)
PointDist(w, opts, t, totalSec) ==
    IF IsDef(totalDistanceM(w, opts)) /\ QLt(Num(0), totalSec)
    THEN ProRate(Val(totalDistanceM(w, opts)), t, totalSec)
    ELSE Num(0)

\* alt of a series point: with the option, the point's own verticalM, else
\* the workout's total pro-rated when seriesTotalSec > 0
SeriesAlt(p, w, opts, t, totalSec) ==
    IF opts.includeVerticalAsAltitude
    THEN IF IsDef(p.verticalM) THEN p.verticalM
         ELSE IF IsDef(totalVerticalM(w, opts)) /\ QLt(Num(0), totalSec)
         THEN Some(ProRate(Val(totalVerticalM(w, opts)), t, totalSec))
         ELSE Undef
    ELSE Undef

\* alt of a synthetic point: the workout's total pro-rated when totalSeconds > 0
SyntheticAlt(w, opts, t) ==
    IF IsDef(totalVerticalM(w, opts)) /\ QLt(Num(0), totalSeconds(w))
    THEN Some(ProRate(Val(totalVerticalM(w, opts)), t, totalSeconds(w)))
    ELSE Undef

\* pointWatts with the option not asked: the point's watts, else the default
PointWatts_Ungated(p, w, opts) ==
    IF IsDef(p.watts) THEN Some(MathRound(Val(p.watts)))
    ELSE IF IsDef(Get(w.metrics, "AvgPower")) THEN Some(MathRound(w.metrics["AvgPower"]))
    ELSE Undef

\* opts.includePowerSeries ? (p.watts != null ? Math.round(p.watts) : watts) : undefined
PointWatts(p, w, opts) ==
    IF opts.includePowerSeries
    THEN IF IsDef(p.watts) THEN Some(MathRound(Val(p.watts))) ELSE defaultWatts(w, opts)
    ELSE Undef

\* opts.includeCadenceSeries ? (p.cadence != null ? Math.round(p.cadence) : cadence) : undefined
PointCadence(p, w, opts) ==
    IF opts.includeCadenceSeries
    THEN IF IsDef(p.cadence) THEN Some(MathRound(Val(p.cadence))) ELSE cadence(w, opts)
    ELSE Undef

\* the 5-second cadence of the synthetic fallback
step == 5

\* SyntheticCount without the point at offset 0 counted: floor(totalSeconds / step)
SyntheticCount_NoPlusOne(w) ==
    IF QLt(Num(0), totalSeconds(w))
    THEN MathMax(Num(2), MathFloor(QDiv(totalSeconds(w), Num(step)))).n
    ELSE 2

\* n = totalSeconds > 0 ? Math.max(2, Math.floor(totalSeconds / step) + 1) : 2
SyntheticCount(w) ==
    IF QLt(Num(0), totalSeconds(w))
    THEN MathMax(Num(2), QAdd(MathFloor(QDiv(totalSeconds(w), Num(step))), Num(1))).n
    ELSE 2

\* SyntheticT with the step not multiplied by the index: Math.min(totalSeconds, step)
SyntheticT_StepNotScaled(w, i) == MathMin(totalSeconds(w), Num(step))

\* t = Math.min(totalSeconds, i * step), for i = 0 .. n - 1
SyntheticT(w, i) == MathMin(totalSeconds(w), Num(i * step))

\* the constant heart rate of a synthetic point:
\* opts.includeHrSeries && (avgHr != null || maxHr != null) ? Math.round(avgHr ?? maxHr) : undefined
SyntheticHr(w, opts) ==
    LET avgHr == Get(w.metrics, "AvgHr")
        maxHr == Get(w.metrics, "MaxHr")
    IN IF opts.includeHrSeries /\ (IsDef(avgHr) \/ IsDef(maxHr))
       THEN Some(MathRound(Val(OrElse(avgHr, maxHr))))
       ELSE Undef

-----------------------------------------------------------------------------
(* workoutToTCX *)

\* an optional number as toFixed(1) writes it
OptFixed1(o) == IF IsDef(o) THEN Some(ToFixed1(Val(o))) ELSE Undef

\* one trackpoint of the series path: its offset from the start (Time is the
\* start plus t seconds) and the elements written; an element left out is <<>>
TcxSeriesPoint(p, w, opts, totalSec) ==
    LET t == MathMax(Num(0), MathRound(p.tSec))
    IN [t |-> t,
        AltitudeMeters |-> OptFixed1(SeriesAlt(p, w, opts, t, totalSec)),
        DistanceMeters |-> ToFixed1(PointDist(w, opts, t, totalSec)),
        HeartRateBpm |-> IF opts.includeHrSeries /\ IsDef(p.hr)
                         THEN Some(MathRound(Val(p.hr))) ELSE Undef,
        Cadence |-> PointCadence(p, w, opts),
        Watts |-> PointWatts(p, w, opts)]

\* one trackpoint of the synthetic path
TcxSyntheticPoint(w, opts, t) ==
    [t |-> t,
     AltitudeMeters |-> OptFixed1(SyntheticAlt(w, opts, t)),
     DistanceMeters |-> ToFixed1(PointDist(w, opts, t, totalSeconds(w))),
     HeartRateBpm |-> SyntheticHr(w, opts),
     Cadence |-> cadence(w, opts),
     Watts |-> defaultWatts(w, opts)]

\* the trackpoints: one per point of the sorted series, or the synthetic ones
TcxPoints(w, opts) ==
    IF hasSeries(w)
    THEN LET sortedSeries == SortByTSec(w.series)
         IN [i \in 1..Len(sortedSeries) |->
                TcxSeriesPoint(sortedSeries[i], w, opts, seriesTotalSec(w, sortedSeries))]
    ELSE [i \in 1..SyntheticCount(w) |-> TcxSyntheticPoint(w, opts, SyntheticT(w, i - 1))]

\* the Notes element: the metrics with includeMetricsInNotes, else a fixed text
TcxNotes(w, opts) ==
    IF opts.includeMetricsInNotes
    THEN [text |-> "Mywellness metrics", metrics |-> w.metrics]
    ELSE [text |-> "Generated from Mywellness export.", metrics |-> NoMetrics]

\* workoutToTCX(w, opts), reading the wall clock as nowMs: the document, as
\* the start it names (Id, Lap StartTime), its lap totals, trackpoints, notes
workoutToTCX(w, opts, nowMs) ==
    [Id |-> toISOString(startMs(w, nowMs)),
     TotalTimeSeconds |-> totalSeconds(w),
     DistanceMeters |-> IF IsDef(totalDistanceM(w, opts))
                        THEN ToFixed1(Val(totalDistanceM(w, opts))) ELSE Num(0),
     Calories |-> calories(w, opts),
     Trackpoints |-> TcxPoints(w, opts),
     Notes |-> TcxNotes(w, opts)]

-----------------------------------------------------------------------------
(* workoutToFIT *)

\* sortedSeries.filter((p) => p.hr != null).sort(by tSec), hr unwrapped
RECURSIVE fitHrAnchors(_)
fitHrAnchors(sortedSeries) ==
    IF sortedSeries = <<>> THEN <<>>
    ELSE LET rest == fitHrAnchors(SubSeq(sortedSeries, 1, Len(sortedSeries) - 1))
             p == sortedSeries[Len(sortedSeries)]
         IN IF IsDef(p.hr)
            THEN InsertByTSec(rest, [tSec |-> p.tSec, hr |-> Val(p.hr)])
            ELSE rest

\* hrAt of workoutToFIT holding the first anchor's value throughout
fitHrAt_FirstAnchor(opts, anchors, tSec) ==
    IF ~opts.includeHrSeries \/ Len(anchors) = 0 THEN Undef
    ELSE Some(anchors[1].hr)

\* hrAt of workoutToFIT: as the extractor's, and undefined when HR is excluded
fitHrAt(opts, anchors, tSec) ==
    IF ~opts.includeHrSeries \/ Len(anchors) = 0 THEN Undef
    ELSE IF Len(anchors) = 1 THEN Some(anchors[1].hr)
    ELSE IF QLe(tSec, anchors[1].tSec) THEN Some(anchors[1].hr)
    ELSE IF QLe(anchors[Len(anchors)].tSec, tSec) THEN Some(anchors[Len(anchors)].hr)
    ELSE Some(hrAtLoop(anchors, tSec, 2))

\* FitSeriesRecord taking every altitude from the workout's total, never from the point
FitSeriesRecord_NoOwnAltitude(p, w, opts, anchors, totalSec) ==
    LET t == MathMax(Num(0), MathRound(p.tSec))
        hrRaw == fitHrAt(opts, anchors, t)
    IN [tSec |-> t,
        hr |-> IF opts.includeHrSeries /\ IsDef(hrRaw) THEN Some(MathRound(Val(hrRaw))) ELSE Undef,
        cadence |-> PointCadence(p, w, opts),
        watts |-> PointWatts(p, w, opts),
        alt |-> SyntheticAlt(w, opts, t),
        dist |-> PointDist(w, opts, t, totalSec)]

\* one record of the series path, before the forward-fill pass
FitSeriesRecord(p, w, opts, anchors, totalSec) ==
    LET t == MathMax(Num(0), MathRound(p.tSec))
        hrRaw == fitHrAt(opts, anchors, t)
    IN [tSec |-> t,
        hr |-> IF opts.includeHrSeries /\ IsDef(hrRaw) THEN Some(MathRound(Val(hrRaw))) ELSE Undef,
        cadence |-> PointCadence(p, w, opts),
        watts |-> PointWatts(p, w, opts),
        alt |-> SeriesAlt(p, w, opts, t, totalSec),
        dist |-> PointDist(w, opts, t, totalSec)]

\* the records of the series path as pushed, before the forward-fill pass
FitSeriesRecords(w, opts) ==
    LET sortedSeries == SortByTSec(w.series)
        anchors == fitHrAnchors(sortedSeries)
    IN [i \in 1..Len(sortedSeries) |->
           FitSeriesRecord(sortedSeries[i], w, opts, anchors, seriesTotalSec(w, sortedSeries))]

\* for (const r of records) if (r.hr != null) { firstKnown = r.hr; break; }
RECURSIVE firstKnown(_)
firstKnown(records) ==
    IF records = <<>> THEN Undef
    ELSE IF IsDef(Head(records).hr) THEN Head(records).hr
    ELSE firstKnown(Tail(records))

\* fallbackHr without the average/max fallback
fallbackHr_FirstKnownOnly(records, avgHr, maxHr) == firstKnown(records)

\* fallbackHr preferring the average/max over the first known value
fallbackHr_AverageFirst(records, avgHr, maxHr) ==
    IF IsDef(avgHr) THEN Some(MathRound(Val(avgHr)))
    ELSE IF IsDef(maxHr) THEN Some(MathRound(Val(maxHr)))
    ELSE firstKnown(records)

\* firstKnown ?? (avgHr != null ? round(avgHr) : maxHr != null ? round(maxHr) : undefined)
fallbackHr(records, avgHr, maxHr) ==
    OrElse(firstKnown(records),
           IF IsDef(avgHr) THEN Some(MathRound(Val(avgHr)))
           ELSE IF IsDef(maxHr) THEN Some(MathRound(Val(maxHr)))
           ELSE Undef)

\* let prev = fallbackHr; for (const r of records) { if (r.hr == null) r.hr = prev; else prev = r.hr; }
RECURSIVE FillScan(_, _)
FillScan(records, prev) ==
    IF records = <<>> THEN <<>>
    ELSE IF IsDef(Head(records).hr)
    THEN <<Head(records)>> \o FillScan(Tail(records), Val(Head(records).hr))
    ELSE <<[Head(records) EXCEPT !.hr = Some(prev)]>> \o FillScan(Tail(records), prev)

\* the defensive forward-fill pass over the records of the series path
ForwardFill(records, opts, avgHr, maxHr) ==
    IF opts.includeHrSeries /\ Len(records) > 0 /\ IsDef(fallbackHr(records, avgHr, maxHr))
    THEN FillScan(records, Val(fallbackHr(records, avgHr, maxHr)))
    ELSE records

\* the records of the synthetic path
FitSyntheticRecords(w, opts) ==
    [i \in 1..SyntheticCount(w) |->
        LET t == SyntheticT(w, i - 1)
        IN [tSec |-> t,
            hr |-> SyntheticHr(w, opts),
            cadence |-> cadence(w, opts),
            watts |-> defaultWatts(w, opts),
            alt |-> SyntheticAlt(w, opts, t),
            dist |-> PointDist(w, opts, t, totalSeconds(w))]]

\* the records array when the record messages are written
FitRecords(w, opts) ==
    IF hasSeries(w)
    THEN ForwardFill(FitSeriesRecords(w, opts), opts,
                     Get(w.metrics, "AvgHr"), Get(w.metrics, "MaxHr"))
    ELSE FitSyntheticRecords(w, opts)

\* lastTSec = records.length ? records[records.length - 1].tSec : totalSeconds
lastTSec(w, records) == IF Len(records) > 0 THEN records[Len(records)].tSec ELSE totalSeconds(w)

\* totalTime = Math.max(1, lastTSec)
totalTime(w, records) == MathMax(Num(1), lastTSec(w, records))

\* avgSpeed = totalDistanceM != null && totalTime > 0 ? totalDistanceM / totalTime : undefined
avgSpeed(w, opts, records) ==
    IF IsDef(totalDistanceM(w, opts)) /\ QLt(Num(0), totalTime(w, records))
    THEN Some(QDiv(Val(totalDistanceM(w, opts)), totalTime(w, records)))
    ELSE Undef

\* maxSpeed = avgSpeed != null ? avgSpeed * 1.08 : undefined
maxSpeed(w, opts, records) ==
    IF IsDef(avgSpeed(w, opts, records))
    THEN Some(QMul(Val(avgSpeed(w, opts, records)), Q(108, 100)))
    ELSE Undef

\* totalAscent = totalVerticalM != null ? Math.max(0, totalVerticalM) : undefined
totalAscent(w, opts) ==
    IF IsDef(totalVerticalM(w, opts))
    THEN Some(MathMax(Num(0), Val(totalVerticalM(w, opts)))) ELSE Undef

\* totalDescent = totalVerticalM != null ? 0 : undefined
totalDescent(w, opts) == IF IsDef(totalVerticalM(w, opts)) THEN Some(Num(0)) ELSE Undef

\* totalWork = avgPower != null ? Math.max(0, Math.round(avgPower * totalTime)) : undefined
totalWork(w, records) ==
    IF IsDef(Get(w.metrics, "AvgPower"))
    THEN Some(MathMax(Num(0), MathRound(QMul(w.metrics["AvgPower"], totalTime(w, records)))))
    ELSE Undef

Msg(name, fields) == [name |-> name, fields |-> fields]

\* file_id (time_created: the start), then with enhancedCompatibility:
\* file_creator, device_info, event (timer start)
FitHeader(w, enhancedCompatibility, nowMs) ==
    <<Msg("file_id", [type |-> "activity", time_created |-> startMs(w, nowMs)])>> \o
    (IF enhancedCompatibility
     THEN <<Msg("file_creator", [software_version |-> 100]),
            Msg("device_info", [device_index |-> 0]),
            Msg("event", [event |-> "timer", event_type |-> "start"])>>
     ELSE <<>>)

\* for (const r of records) fit.writeMessage("record", ...); timestamp is
\* written here as the offset r.tSec from the start
FitRecordMessages(records) ==
    [i \in 1..Len(records) |->
        Msg("record", [timestamp |-> records[i].tSec,
                       distance |-> records[i].dist,
                       heart_rate |-> records[i].hr,
                       cadence |-> records[i].cadence,
                       power |-> records[i].watts,
                       altitude |-> records[i].alt])]

\* the fields lap and session share
FitSummaryFields(w, opts, records) ==
    LET avgHr == Get(w.metrics, "AvgHr")
        maxHr == Get(w.metrics, "MaxHr")
        avgPower == Get(w.metrics, "AvgPower")
    IN [total_elapsed_time |-> totalTime(w, records),
        total_timer_time |-> totalTime(w, records),
        total_distance |-> Val(OrElse(totalDistanceM(w, opts), Some(Num(0)))),
        total_calories |-> calories(w, opts),
        total_ascent |-> totalAscent(w, opts),
        total_descent |-> totalDescent(w, opts),
        avg_speed |-> avgSpeed(w, opts, records),
        max_speed |-> maxSpeed(w, opts, records),
        avg_heart_rate |-> IF IsDef(avgHr) THEN Some(MathRound(Val(avgHr))) ELSE Undef,
        max_heart_rate |-> IF IsDef(maxHr) THEN Some(MathRound(Val(maxHr))) ELSE Undef,
        avg_power |-> IF IsDef(avgPower) THEN Some(MathRound(Val(avgPower))) ELSE Undef,
        total_work |-> totalWork(w, records),
        avg_cadence |-> cadence(w, opts)]

\* lap, session, activity
FitSummary(w, opts, records) ==
    <<Msg("lap", FitSummaryFields(w, opts, records)),
      Msg("session", FitSummaryFields(w, opts, records)),
      Msg("activity", [total_timer_time |-> totalTime(w, records)])>>

\* with enhancedCompatibility: event (timer stop_all), device_info
FitTrailer(enhancedCompatibility) ==
    IF enhancedCompatibility
    THEN <<Msg("event", [event |-> "timer", event_type |-> "stop_all"]),
           Msg("device_info", [device_index |-> 0])>>
    ELSE <<>>

\* workoutToFIT writing the closing event and device_info before the summaries
workoutToFIT_TrailerFirst(w, opts, enhancedCompatibility, nowMs) ==
    LET records == FitRecords(w, opts)
    IN FitHeader(w, enhancedCompatibility, nowMs) \o FitRecordMessages(records) \o
       FitTrailer(enhancedCompatibility) \o FitSummary(w, opts, records)

\* workoutToFIT(w, opts, enhancedCompatibility), reading the wall clock as
\* nowMs: the messages written, in order
workoutToFIT(w, opts, enhancedCompatibility, nowMs) ==
    LET records == FitRecords(w, opts)
    IN FitHeader(w, enhancedCompatibility, nowMs) \o FitRecordMessages(records) \o
       FitSummary(w, opts, records) \o FitTrailer(enhancedCompatibility)

-----------------------------------------------------------------------------
(* The inputs *)

MaxAnchors == 2

MaxSamples == 3

MaxPoints == 2

MaxHrSamples == 3

MaxQuery == 11

MaxRecords == 4

MaxEncodePoints == 2

MaxItems == 2

BoundedSeq(S, n) == UNION {[1..k -> S] : k \in 0..n}

\* the text of the timestamp of day `day` of the epoch at h:m:s UTC
IsoAt(day, h, m, s) == [kind |-> "iso", day |-> day, h |-> h, m |-> m, s |-> s, ms |-> 0]

\* exportOpts with every option at b
AllOpts(b) ==
    [includeHrSeries |-> b, includeCadenceSeries |-> b, includePowerSeries |-> b,
     includeMetricsInNotes |-> b, includeCalories |-> b, includeDistance |-> b,
     includeVerticalAsAltitude |-> b]

OptKeys == DOMAIN AllOpts(TRUE)

\* "12:00", the initial jsonStartTime, as its characters
DefaultStartTime == <<"1", "2", ":", "0", "0">>

\* the zone of the session, in minutes ahead of UTC
SessionZoneMin == 0

\* the instants the wall clock shows when an encoder reads it
Clock == {5 * 86400000 + 1000, 5 * 86400000 + 61000}

\* analitics.hr entries {t, hr}: whole and fractional t, the same t with two
\* values of hr, and one entry whose hr is not a finite number
HrEntries ==
    {[t |-> Some(Num(0)), hr |-> Some(Num(100))],
     [t |-> Some(Q(5, 2)), hr |-> Some(Num(140))],
     [t |-> Some(Num(10)), hr |-> Some(Num(140))],
     [t |-> Some(Num(10)), hr |-> Some(Num(100))],
     [t |-> Some(Num(0)), hr |-> Undef]}

\* analitics.samples entries: t (undefined: missing or not a finite number),
\* here without values
SampleTimes == {Undef, Some(Num(0)), Some(Num(5)), Some(Num(10))}

SampleEntries == {[t |-> t, vs |-> <<>>] : t \in SampleTimes}

\* a single-workout payload (the core object): analitics.hr, .samples,
\* .descriptor, the summary list data, date, on, performedDate
Payload(hr, samples, descriptor, data, date) ==
    [hr |-> hr, samples |-> samples, descriptor |-> descriptor, data |-> data,
     date |-> date, on |-> Undef, performedDate |-> Undef]

JsonInputs ==
    {Payload(h, s, <<>>, <<>>, Some(IsoAt(3, 0, 0, 0))) :
        h \in BoundedSeq(HrEntries, MaxAnchors), s \in BoundedSeq(SampleEntries, MaxSamples)}

\* Workout values handed to the encoders directly: the indoor and outdoor
\* normalisers give no series and any numbers for Duration, AvgHr and MaxHr;
\* the type allows any series
PointTimes == {Q(-3, 2), Num(0), Q(5, 2)}

PointHrs == {Undef, Some(Num(100)), Some(Q(301, 2))}

SeriesPoints ==
    {[tSec |-> t, hr |-> hr, watts |-> Undef, cadence |-> Undef, verticalM |-> Undef] :
        t \in PointTimes, hr \in PointHrs}

Durations == {Undef, Some(Num(-4)), Some(Num(0)), Some(Q(9, 2)), Some(Num(23))}

HrMetrics ==
    {NoMetrics,
     [k \in {"AvgHr"} |-> Q(259, 2)],
     [k \in {"MaxHr"} |-> Num(160)],
     [k \in {"AvgHr", "MaxHr"} |-> IF k = "AvgHr" THEN Q(259, 2) ELSE Num(160)]}

\* a Workout with a start, a series, a duration, metrics and options, and
\* no distance, vertical, calories or cadence
PlainWorkout(s, d, m, opts) ==
    [source |-> "indoor", startedAtISO |-> Some(IsoAt(3, 10, 0, 0)), rawStartISO |-> Undef,
     series |-> s, durationSec |-> d, calories |-> Undef, distanceM |-> Undef,
     verticalM |-> Undef, cadenceSpm |-> Undef,
     metrics |-> IF IsDef(d) THEN Merge([k \in {"Duration"} |-> Val(d)], m) ELSE m,
     exportOpts |-> opts]

WorkoutInputs ==
    {PlainWorkout(s, d, m, [AllOpts(FALSE) EXCEPT !.includeHrSeries = o]) :
        s \in BoundedSeq(SeriesPoints, MaxPoints), d \in Durations,
        m \in HrMetrics, o \in BOOLEAN}

\* hrAt on its own: the analitics.hr array and the time asked for
QueryTimes == {Num(t) : t \in -1..MaxQuery}

HrAtArgs ==
    {[hr |-> h, tSec |-> t] : h \in BoundedSeq(HrEntries, MaxHrSamples), t \in QueryTimes}

\* the forward-fill pass on its own: the records array and the metrics it reads
HrValues == {Undef, Some(Num(120)), Some(Num(150))}

FillRecords == {[tSec |-> Num(0), hr |-> hr] : hr \in HrValues}

FillArgs ==
    {[records |-> r, avgHr |-> a, maxHr |-> m] :
        r \in BoundedSeq(FillRecords, MaxRecords),
        a \in {Undef, Some(Num(130))}, m \in {Undef, Some(Num(160))}}

NoArgs == <<>>

\* Workouts with every channel, for the encoders: points with and without
\* values of their own, at offsets up to 100 s
EncodePoints ==
    {[tSec |-> Num(0), hr |-> Some(Num(100)), watts |-> Some(Q(401, 2)),
      cadence |-> Some(Q(161, 2)), verticalM |-> Some(Num(3))],
     [tSec |-> Num(25), hr |-> Undef, watts |-> Undef, cadence |-> Undef, verticalM |-> Undef],
     [tSec |-> Num(120), hr |-> Some(Num(150)), watts |-> Undef, cadence |-> Undef,
      verticalM |-> Undef]}

EncodeMetrics ==
    {NoMetrics,
     [k \in {"AvgHr", "MaxHr", "AvgPower", "AvgSpm"} |->
        CASE k = "AvgHr" -> Q(259, 2) [] k = "MaxHr" -> Num(160)
          [] k = "AvgPower" -> Q(361, 2) [] k = "AvgSpm" -> Q(171, 2)],
     [k \in {"Move", "MaxHr"} |-> IF k = "Move" THEN Num(250) ELSE Num(160)]}

\* distanceM, verticalM, calories: all there, or none
EncodeTotals ==
    {[distanceM |-> Some(Num(1000)), verticalM |-> Some(Num(30)), calories |-> Some(Q(501, 2))],
     [distanceM |-> Undef, verticalM |-> Undef, calories |-> Undef]}

EncodeDurations == {Undef, Some(Num(0)), Some(Num(100))}

\* the options as the user may have set them: all, none, all but one, one only
EncodeOpts ==
    {AllOpts(TRUE), AllOpts(FALSE)}
    \cup {[AllOpts(TRUE) EXCEPT ![k] = FALSE] : k \in OptKeys}
    \cup {[AllOpts(FALSE) EXCEPT ![k] = TRUE] : k \in OptKeys}

\* what a Workout can carry as its start: startedAtISO and the raw payload's
\* on / performedDate, each absent, a timestamp, another text or empty
StartFields ==
    {[startedAtISO |-> Some(IsoAt(3, 10, 0, 0)), rawStartISO |-> Undef],
     [startedAtISO |-> Undef, rawStartISO |-> Some(IsoAt(4, 8, 30, 0))],
     [startedAtISO |-> Some(Text("empty")), rawStartISO |-> Some(IsoAt(4, 8, 30, 0))],
     [startedAtISO |-> Undef, rawStartISO |-> Undef],
     [startedAtISO |-> Some(Text("text")), rawStartISO |-> Undef],
     [startedAtISO |-> Some(Text("text")), rawStartISO |-> Some(IsoAt(4, 8, 30, 0))],
     [startedAtISO |-> Undef, rawStartISO |-> Some(Text("text"))],
     [startedAtISO |-> Some(Text("empty")), rawStartISO |-> Undef]}

EncodeWorkout(s, d, m, tot, st, opts) ==
    [source |-> "indoor", startedAtISO |-> st.startedAtISO, rawStartISO |-> st.rawStartISO,
     series |-> s, durationSec |-> d, calories |-> tot.calories, distanceM |-> tot.distanceM,
     verticalM |-> tot.verticalM, cadenceSpm |-> pickCadenceSpm(m),
     metrics |-> IF IsDef(d) THEN Merge([k \in {"Duration"} |-> Val(d)], m) ELSE m,
     exportOpts |-> opts]

\* every channel varied under one start, and every start under two workouts
EncodeInputs ==
    {EncodeWorkout(s, d, m, tot, [startedAtISO |-> Some(IsoAt(3, 10, 0, 0)), rawStartISO |-> Undef],
                   opts) :
        s \in BoundedSeq(EncodePoints, MaxEncodePoints), d \in EncodeDurations,
        m \in EncodeMetrics, tot \in EncodeTotals, opts \in EncodeOpts}
    \cup
    {EncodeWorkout(s, Some(Num(100)), NoMetrics,
                   [distanceM |-> Undef, verticalM |-> Undef, calories |-> Undef],
                   st, AllOpts(TRUE)) :
        s \in BoundedSeq(EncodePoints, 1), st \in StartFields}

-----------------------------------------------------------------------------
(* The session: paste and parse a single-workout JSON, export it *)

\* the App state as the component starts
FreshApp ==
    /\ workouts = <<>>
    /\ error = Undef
    /\ zipName = Undef
    /\ didParse = FALSE
    /\ lastImportMode = Undef

\* what an action on a function run on its own, or an export, leaves alone
appVars == <<error, zipName, didParse, lastImportMode>>

InitJson ==
    /\ pc = "input"
    /\ jsonInput \in {Some(j) : j \in JsonInputs}
    /\ FreshApp
    /\ fitOut = Undef
    /\ tcxOut = Undef
    /\ fnArgs = NoArgs
    /\ fnResult = Undef

InitWorkout ==
    /\ pc = "parsed"
    /\ jsonInput = Undef
    /\ workouts \in {<<w>> : w \in WorkoutInputs}
    /\ error = Undef
    /\ zipName = Some("export.zip")
    /\ didParse = TRUE
    /\ lastImportMode = Some("zip")
    /\ fitOut = Undef
    /\ tcxOut = Undef
    /\ fnArgs = NoArgs
    /\ fnResult = Undef

Init == InitJson \/ InitWorkout

\* onParsePastedJson, for a text that parses to an object payload:
\* resetParsedState(), setWorkouts([extractWorkoutFromSinglePageJSON(parsed,
\* jsonStartTime)]), setZipName, setDidParse(true), setLastImportMode("json")
ParsePastedJson ==
    /\ pc = "input"
    /\ workouts' = <<extractWorkoutFromSinglePageJSON(Val(jsonInput), DefaultStartTime,
                                                      SessionZoneMin)>>
    /\ error' = Undef
    /\ zipName' = Some("mywellness-single-workout")
    /\ didParse' = TRUE
    /\ lastImportMode' = Some("json")
    /\ pc' = "parsed"
    /\ UNCHANGED <<jsonInput, fitOut, tcxOut, fnArgs, fnResult>>

\* an encoder sorting w.series itself, not a copy of it
InputAfterEncode_SortInPlace(w) == [w EXCEPT !.series = SortByTSec(w.series)]

\* the Workout handed to workoutToFIT or workoutToTCX as the call leaves it:
\* both sort a copy ([...(w.series ?? [])].sort), push fresh records and
\* forward-fill those, and assign to no field of w, w.metrics or opts
InputAfterEncode(w) == w

\* a FIT download of the workout: workoutToFIT(w, w.exportOpts,
\* enhancedFitCompatibility), the wall clock at one of its instants
ExportFIT ==
    /\ pc \in {"parsed", "exported"}
    /\ \E e \in BOOLEAN, nowMs \in Clock :
          fitOut' = Some([enhancedCompatibility |-> e,
                          messages |-> workoutToFIT(workouts[1], workouts[1].exportOpts, e, nowMs)])
    /\ workouts' = <<InputAfterEncode(workouts[1])>>
    /\ pc' = "exported"
    /\ UNCHANGED <<jsonInput, tcxOut, fnArgs, fnResult>>
    /\ UNCHANGED appVars

\* a TCX download of the workout: workoutToTCX(w, w.exportOpts)
ExportTCX ==
    /\ pc \in {"parsed", "exported"}
    /\ \E nowMs \in Clock :
          tcxOut' = Some(workoutToTCX(workouts[1], workouts[1].exportOpts, nowMs))
    /\ workouts' = <<InputAfterEncode(workouts[1])>>
    /\ pc' = "exported"
    /\ UNCHANGED <<jsonInput, fitOut, fnArgs, fnResult>>
    /\ UNCHANGED appVars

Next == ParsePastedJson \/ ExportFIT \/ ExportTCX

Spec == Init /\ [][Next]_vars

-----------------------------------------------------------------------------
(* The encoders on Workouts with every channel *)

InitEncode ==
    /\ pc = "parsed"
    /\ jsonInput = Undef
    /\ workouts \in {<<w>> : w \in EncodeInputs}
    /\ error = Undef
    /\ zipName = Some("export.zip")
    /\ didParse = TRUE
    /\ lastImportMode = Some("zip")
    /\ fitOut = Undef
    /\ tcxOut = Undef
    /\ fnArgs = NoArgs
    /\ fnResult = Undef

NextEncode == ExportFIT \/ ExportTCX

SpecEncode == InitEncode /\ [][NextEncode]_vars

-----------------------------------------------------------------------------
(* hrAt of extractWorkoutFromSinglePageJSON on its own *)

\* the App untouched while a function runs on its own
IdleApp ==
    /\ jsonInput = Undef
    /\ FreshApp
    /\ fitOut = Undef
    /\ tcxOut = Undef

idleVars == <<jsonInput, workouts, fitOut, tcxOut, error, zipName, didParse, lastImportMode>>

InitHrAt ==
    /\ pc = "call"
    /\ fnArgs \in HrAtArgs
    /\ fnResult = Undef
    /\ IdleApp

\* hrAt(tSec) over the anchors built from analitics.hr
CallHrAt ==
    /\ pc = "call"
    /\ fnResult' = Some(hrAt(hrAnchors(fnArgs.hr), fnArgs.tSec))
    /\ pc' = "returned"
    /\ UNCHANGED fnArgs
    /\ UNCHANGED idleVars

NextHrAt == CallHrAt

SpecHrAt == InitHrAt /\ [][NextHrAt]_vars

-----------------------------------------------------------------------------
(* The forward-fill pass of workoutToFIT on its own *)

InitFill ==
    /\ pc = "call"
    /\ fnArgs \in FillArgs
    /\ fnResult = Undef
    /\ IdleApp

\* the pass, with HR export enabled (it is skipped otherwise)
CallForwardFill ==
    /\ pc = "call"
    /\ fnResult' = Some(ForwardFill(fnArgs.records, [includeHrSeries |-> TRUE],
                                    fnArgs.avgHr, fnArgs.maxHr))
    /\ pc' = "returned"
    /\ UNCHANGED fnArgs
    /\ UNCHANGED idleVars

NextFill == CallForwardFill

SpecFill == InitFill /\ [][NextFill]_vars

-----------------------------------------------------------------------------
(* Claims about hrAt (checked under SpecHrAt) *)

\* the value the linear interpolation formula gives between a and b at t:
\* a.hr + (b.hr - a.hr) * (t - a.tSec) / (b.tSec - a.tSec)
Lerp(a, b, t) ==
    QAdd(a.hr, QDiv(QMul(QSub(b.hr, a.hr), QSub(t, a.tSec)), QSub(b.tSec, a.tSec)))

\* C1: the anchors hrAt works on have distinct, ascending, integer
\* timestamps; with at least two of them, for a.tSec < t <= b.tSec with a, b
\* adjacent, hrAt(t) is the linear interpolation between a and b; at an
\* anchor's own timestamp it is that anchor's hr; between a and b it stays
\* between a.hr and b.hr and moves monotonically from a.hr towards b.hr.
C1_LinearInterpolation ==
    pc = "returned" =>
        LET anchors == hrAnchors(fnArgs.hr)
            t == fnArgs.tSec
        IN /\ \A i \in 1..Len(anchors) : anchors[i].tSec.d = 1
           /\ \A i \in 1..(Len(anchors) - 1) : QLt(anchors[i].tSec, anchors[i + 1].tSec)
           /\ Len(anchors) >= 2 =>
                /\ \A i \in 1..Len(anchors) :
                      anchors[i].tSec = t => fnResult = Some(Some(anchors[i].hr))
                /\ \A i \in 1..(Len(anchors) - 1) :
                      LET a == anchors[i]
                          b == anchors[i + 1]
                      IN (QLt(a.tSec, t) /\ QLe(t, b.tSec)) =>
                            /\ fnResult = Some(Some(Lerp(a, b, t)))
                            /\ QLe(MathMin(a.hr, b.hr), Val(Val(fnResult)))
                            /\ QLe(Val(Val(fnResult)), MathMax(a.hr, b.hr))
                            /\ \A u \in QueryTimes :
                                  (QLt(a.tSec, u) /\ QLe(u, t)) =>
                                      IF QLe(a.hr, b.hr)
                                      THEN QLe(Val(hrAt(anchors, u)), Val(Val(fnResult)))
                                      ELSE QLe(Val(Val(fnResult)), Val(hrAt(anchors, u)))

\* C1 witness: three anchors, a query strictly inside the second interval,
\* different hr at its ends, and a result that is not a whole number
C1_Witness ==
    /\ pc = "returned"
    /\ LET anchors == hrAnchors(fnArgs.hr)
       IN /\ Len(anchors) = 3
          /\ QLt(anchors[2].tSec, fnArgs.tSec)
          /\ QLt(fnArgs.tSec, anchors[3].tSec)
          /\ anchors[2].hr # anchors[3].hr
          /\ Val(Val(fnResult)).d # 1

\* C2: hrAt clamps outside the anchor range: the first anchor's hr at or
\* before the first timestamp, the last anchor's hr at or after the last;
\* with one anchor that anchor's hr for every t; with none, undefined.
C2_Clamp ==
    pc = "returned" =>
        LET anchors == hrAnchors(fnArgs.hr)
            t == fnArgs.tSec
        IN /\ Len(anchors) = 0 => fnResult = Some(Undef)
           /\ Len(anchors) = 1 => fnResult = Some(Some(anchors[1].hr))
           /\ (Len(anchors) >= 1 /\ QLe(t, anchors[1].tSec)) =>
                  fnResult = Some(Some(anchors[1].hr))
           /\ (Len(anchors) >= 1 /\ QLe(anchors[Len(anchors)].tSec, t)) =>
                  fnResult = Some(Some(anchors[Len(anchors)].hr))

\* C2 witness: two anchors or more with different hr at the first two, and a
\* query strictly before the first, answered with the first anchor's hr
C2_Witness ==
    /\ pc = "returned"
    /\ LET anchors == hrAnchors(fnArgs.hr)
       IN /\ Len(anchors) >= 2
          /\ anchors[1].hr # anchors[2].hr
          /\ QLt(fnArgs.tSec, anchors[1].tSec)
          /\ fnResult = Some(Some(anchors[1].hr))

-----------------------------------------------------------------------------
(* Claims about the reconstructed series (checked under Spec) *)

\* the messages of the last FIT export with the given name, in order
FitMessages(name) == SelectSeq(Val(fitOut).messages, LAMBDA m : m.name = name)

\* C3: in the series extractWorkoutFromSinglePageJSON returns, with at least
\* one valid HR anchor every point carries hr = round(hrAt(point.tSec)), and
\* with no anchor no point carries hr; never hr on some points only.
C3_HrOnEveryPoint ==
    (IsDef(jsonInput) /\ pc # "input") =>
        LET anchors == hrAnchors(Val(jsonInput).hr)
            series == workouts[1].series
        IN /\ Len(anchors) >= 1 =>
                \A i \in 1..Len(series) :
                    series[i].hr = Some(MathRound(Val(hrAt(anchors, series[i].tSec))))
           /\ Len(anchors) = 0 => \A i \in 1..Len(series) : series[i].hr = Undef
           /\ \/ \A i \in 1..Len(series) : IsDef(series[i].hr)
              \/ \A i \in 1..Len(series) : ~IsDef(series[i].hr)

\* C3 witness: a parsed payload with anchors, and a series point whose
\* timestamp is no anchor's, carrying an interpolated hr that no anchor has
C3_Witness ==
    /\ IsDef(jsonInput)
    /\ pc = "parsed"
    /\ LET anchors == hrAnchors(Val(jsonInput).hr)
           series == workouts[1].series
       IN /\ Len(anchors) >= 2
          /\ \E i \in 1..Len(series) :
                /\ \A k \in 1..Len(anchors) : anchors[k].tSec # series[i].tSec
                /\ IsDef(series[i].hr)
                /\ \A k \in 1..Len(anchors) : anchors[k].hr # Val(series[i].hr)

-----------------------------------------------------------------------------
(* Claims about the forward-fill pass *)

\* the hr values of a records array, in order
HrsOf(records) == [i \in 1..Len(records) |-> records[i].hr]

\* the value the metrics give when no record has an HR: round(avgHr), else round(maxHr)
MetricsFallback(avgHr, maxHr) ==
    IF IsDef(avgHr) THEN Some(MathRound(Val(avgHr)))
    ELSE IF IsDef(maxHr) THEN Some(MathRound(Val(maxHr)))
    ELSE Undef

FillScenario ==
    [records |-> [i \in 1..4 |-> [tSec |-> Num(0),
                                  hr |-> IF i = 3 THEN Some(Num(150)) ELSE Undef]],
     avgHr |-> Some(Num(130)), maxHr |-> Undef]

-----------------------------------------------------------------------------
(* Claims about the messages and points the encoders emit (checked under Spec) *)

\* the names of the messages of the last FIT export, in order
FitNames == [i \in 1..Len(Val(fitOut).messages) |-> Val(fitOut).messages[i].name]

\* the time offsets of the record messages of the last FIT export, in order
FitOffsets == [i \in 1..Len(FitMessages("record")) |-> FitMessages("record")[i].fields.timestamp]

\* the time offsets of the trackpoints of the last TCX export, in order
TcxOffsets == [i \in 1..Len(Val(tcxOut).Trackpoints) |-> Val(tcxOut).Trackpoints[i].t]

\* max(0, round(tSec)) of each point of a series, in the series' order
SeriesOffsets(series) ==
    [i \in 1..Len(series) |->
        LET r == (2 * series[i].tSec.n + series[i].tSec.d) \div (2 * series[i].tSec.d)
        IN Num(IF r < 0 THEN 0 ELSE r)]

NonDecreasing(offsets) == \A i \in 1..(Len(offsets) - 1) : offsets[i].n <= offsets[i + 1].n

StrictlyAscending(offsets) == \A i \in 1..(Len(offsets) - 1) : offsets[i].n < offsets[i + 1].n

\* s and t hold the same elements, each as often
IsPermutation(s, t) ==
    /\ Len(s) = Len(t)
    /\ \A x \in {s[i] : i \in 1..Len(s)} \cup {t[i] : i \in 1..Len(t)} :
          Cardinality({i \in 1..Len(s) : s[i] = x}) = Cardinality({i \in 1..Len(t) : t[i] = x})

\* C6: workoutToFIT writes file_id; then, iff enhancedCompatibility,
\* file_creator, device_info and a timer-start event; then the records; then
\* one lap, one session, one activity; then, iff enhancedCompatibility, a
\* timer-stop event and device_info.
C6_MessageOrder ==
    IsDef(fitOut) =>
        LET e == Val(fitOut).enhancedCompatibility
            msgs == Val(fitOut).messages
            k == Len(FitMessages("record"))
        IN /\ FitNames =
                <<"file_id">>
                \o (IF e THEN <<"file_creator", "device_info", "event">> ELSE <<>>)
                \o [i \in 1..k |-> "record"]
                \o <<"lap", "session", "activity">>
                \o (IF e THEN <<"event", "device_info">> ELSE <<>>)
           /\ e => /\ msgs[4].fields.event_type = "start"
                   /\ msgs[Len(msgs) - 1].fields.event_type = "stop_all"
           /\ k = Len(FitRecords(workouts[1], workouts[1].exportOpts))

\* C6 witness: an enhanced export with at least two records
C6_Witness ==
    /\ IsDef(fitOut)
    /\ Val(fitOut).enhancedCompatibility
    /\ Len(FitMessages("record")) >= 2
    /\ Val(fitOut).messages[Len(Val(fitOut).messages)].name = "device_info"

\* C7 as claimed: the record messages have strictly ascending timestamps,
\* for every workout, on the series path and on the synthetic path.
C7_StrictlyAscending == IsDef(fitOut) => StrictlyAscending(FitOffsets)

\* C7 as amended: the record messages have non-decreasing timestamps; they
\* are strictly ascending on the series path when the points' offsets
\* max(0, round(tSec)) are pairwise distinct, and on the synthetic path when
\* the rounded duration is at least 1.
C7_NonDecreasing ==
    IsDef(fitOut) =>
        LET w == workouts[1]
            offs == SeriesOffsets(w.series)
        IN /\ NonDecreasing(FitOffsets)
           /\ (hasSeries(w) /\ \A i, j \in 1..Len(offs) : offs[i] = offs[j] => i = j)
                 => StrictlyAscending(FitOffsets)
           /\ (~hasSeries(w) /\ totalSeconds(w).n >= 1) => StrictlyAscending(FitOffsets)

\* C7 witness: a synthetic export of a 23-second workout, five records
\* at strictly ascending offsets 0, 5, 10, 15, 20
C7_Witness ==
    /\ IsDef(fitOut)
    /\ ~hasSeries(workouts[1])
    /\ FitOffsets = <<Num(0), Num(5), Num(10), Num(15), Num(20)>>

\* C8: whatever the order of the series' points (every order is an input
\* here), both encoders emit them in non-decreasing tSec order: the offsets
\* max(0, round(tSec)) emitted are the series' offsets rearranged into
\* non-decreasing order (one sequence only is that, so it is the same for
\* every reordering of the series), and the trackpoints are the series'
\* points, each once.
C8_SortedWhateverTheInputOrder ==
    (pc = "exported" /\ hasSeries(workouts[1])) =>
        LET w == workouts[1]
        IN /\ IsDef(tcxOut) =>
                /\ NonDecreasing(TcxOffsets)
                /\ IsPermutation(TcxOffsets, SeriesOffsets(w.series))
                /\ IsPermutation(Val(tcxOut).Trackpoints,
                                 [i \in 1..Len(w.series) |->
                                     TcxSeriesPoint(w.series[i], w, w.exportOpts,
                                                    seriesTotalSec(w, SortByTSec(w.series)))])
           /\ IsDef(fitOut) =>
                /\ NonDecreasing(FitOffsets)
                /\ IsPermutation(FitOffsets, SeriesOffsets(w.series))

\* C8 witness: a series given in descending order of tSec, exported both ways
C8_Witness ==
    /\ IsDef(fitOut)
    /\ IsDef(tcxOut)
    /\ LET series == workouts[1].series
       IN /\ Len(series) = 2
          /\ QLt(series[2].tSec, series[1].tSec)
          /\ TcxOffsets[1].n < TcxOffsets[2].n
          /\ FitOffsets[1].n < FitOffsets[2].n

\* the payload of the end-to-end scenario: samples at t = 0, 5, 10 and the
\* HR anchors (0, 100) and (10, 140)
Scenario ==
    Payload(<<[t |-> Some(Num(0)), hr |-> Some(Num(100))],
              [t |-> Some(Num(10)), hr |-> Some(Num(140))]>>,
            <<[t |-> Some(Num(0)), vs |-> <<>>], [t |-> Some(Num(5)), vs |-> <<>>],
              [t |-> Some(Num(10)), vs |-> <<>>]>>,
            <<>>, <<>>, Some(IsoAt(3, 0, 0, 0)))

\* the number of points the claim C9 gives for a workout
ExpectedCount(w) ==
    IF Len(w.series) > 0 THEN Len(w.series)
    ELSE LET d == IF IsDef(w.durationSec) THEN Val(w.durationSec) ELSE Num(0)
             r == (2 * d.n + d.d) \div (2 * d.d)
             D == IF r < 0 THEN 0 ELSE r
         IN IF D = 0 THEN 2
            ELSE IF D \div 5 + 1 < 2 THEN 2 ELSE D \div 5 + 1

\* C9: the number of trackpoints and of record messages is the number of
\* series points when the series is non-empty; otherwise, with D = max(0,
\* round(durationSec or 0)), it is 2 when D = 0 and max(2, floor(D/5)+1) when
\* D > 0: 5 for D = 23, and 3 records in the end-to-end scenario.
C9_PointCount ==
    pc = "exported" =>
        LET w == workouts[1]
        IN /\ IsDef(tcxOut) => Len(Val(tcxOut).Trackpoints) = ExpectedCount(w)
           /\ IsDef(fitOut) => Len(FitMessages("record")) = ExpectedCount(w)
           /\ (~hasSeries(w) /\ w.durationSec = Some(Num(23))) => ExpectedCount(w) = 5
           /\ (~hasSeries(w) /\ w.durationSec \in {Undef, Some(Num(0))}) => ExpectedCount(w) = 2
           /\ (jsonInput = Some(Scenario) /\ IsDef(fitOut)) => Len(FitMessages("record")) = 3

\* C9 witness: a workout of 23 seconds without a series, exported both ways
\* with five points each
C9_Witness ==
    /\ IsDef(fitOut)
    /\ IsDef(tcxOut)
    /\ ~hasSeries(workouts[1])
    /\ workouts[1].durationSec = Some(Num(23))
    /\ Len(Val(tcxOut).Trackpoints) = 5
    /\ Len(FitMessages("record")) = 5

\* the whole numbers a series' points carry as hr
SeriesHrs(series) == [i \in 1..Len(hrValuesOf(series)) |-> hrValuesOf(series)[i].n]

RECURSIVE Sum(_)
Sum(s) == IF s = <<>> THEN 0 ELSE Head(s) + Sum(Tail(s))

\* C10: for a workout extractWorkoutFromSinglePageJSON produced from at least
\* one sample and one HR anchor, avg_heart_rate of the FIT lap and session is
\* round(mean of the points' hr) and max_heart_rate is their maximum; in the
\* scenario the hr at t = 5 is 120 and the lap's avg_heart_rate is 120.
C10_LapHeartRate ==
    (IsDef(jsonInput) /\ IsDef(fitOut)) =>
        LET w == workouts[1]
            hrs == SeriesHrs(w.series)
            lap == FitMessages("lap")[1].fields
            session == FitMessages("session")[1].fields
        IN /\ (Len(w.series) >= 1 /\ Len(hrAnchors(Val(jsonInput).hr)) >= 1) =>
                 /\ Len(hrs) = Len(w.series)
                 /\ lap.avg_heart_rate = Some(Num((2 * Sum(hrs) + Len(hrs)) \div (2 * Len(hrs))))
                 /\ session.avg_heart_rate = lap.avg_heart_rate
                 /\ \E i \in 1..Len(hrs) : lap.max_heart_rate = Some(Num(hrs[i]))
                 /\ \A i \in 1..Len(hrs) : hrs[i] <= Val(lap.max_heart_rate).n
                 /\ session.max_heart_rate = lap.max_heart_rate
           /\ jsonInput = Some(Scenario) =>
                 /\ w.series[2].tSec = Num(5)
                 /\ w.series[2].hr = Some(Num(120))
                 /\ lap.avg_heart_rate = Some(Num(120))

\* C10 witness: the scenario, exported to FIT, with 120 as the lap's average
\* and 140 as its maximum
C10_Witness ==
    /\ jsonInput = Some(Scenario)
    /\ IsDef(fitOut)
    /\ SeriesHrs(workouts[1].series) = <<100, 120, 140>>
    /\ FitMessages("lap")[1].fields.avg_heart_rate = Some(Num(120))
    /\ FitMessages("lap")[1].fields.max_heart_rate = Some(Num(140))

-----------------------------------------------------------------------------
(* Claims about the channels the encoders write (checked under SpecEncode) *)

\* the largest tSec of a series' points
RECURSIVE MaxTSec(_)
MaxTSec(series) ==
    IF Len(series) = 1 THEN series[1].tSec
    ELSE LET m == MaxTSec(Tail(series))
         IN IF m.n * series[1].tSec.d >= series[1].tSec.n * m.d THEN m ELSE series[1].tSec

\* the distance C11 gives for a point at offset t of workout w: with distance
\* included and present, and S = max(rounded declared duration, last tSec) > 0,
\* totalDistanceM * t / S; otherwise 0
ExpectedDist(w, t) ==
    LET d == IF IsDef(w.durationSec) THEN Val(w.durationSec) ELSE Num(0)
        r == (2 * d.n + d.d) \div (2 * d.d)
        declared == Num(IF r < 0 THEN 0 ELSE r)
        last == MaxTSec(w.series)
        S == IF declared.n * last.d >= last.n * declared.d THEN declared ELSE last
    IN IF w.exportOpts.includeDistance /\ IsDef(w.distanceM) /\ S.n > 0
       THEN QDiv(QMul(Val(w.distanceM), t), S)
       ELSE Num(0)

\* C11: on the series path every FIT record carries the distance
\* totalDistanceM * t / seriesTotalSec of its offset t = max(0, round(tSec)),
\* and every TCX trackpoint that value written with one decimal; 1000 m over
\* 100 s give 250 at t = 25; the distance is 0 when the option excludes
\* distance or seriesTotalSec is 0.
C11_DistanceProRata ==
    (pc = "exported" /\ hasSeries(workouts[1])) =>
        LET w == workouts[1]
            records == FitMessages("record")
            points == Val(tcxOut).Trackpoints
        IN /\ IsDef(fitOut) =>
                \A i \in 1..Len(records) :
                    /\ records[i].fields.distance = ExpectedDist(w, records[i].fields.timestamp)
                    /\ (~w.exportOpts.includeDistance) => records[i].fields.distance = Num(0)
                    /\ (w.exportOpts.includeDistance /\ w.distanceM = Some(Num(1000))
                          /\ w.durationSec = Some(Num(100)) /\ MaxTSec(w.series).n <= 100
                          /\ records[i].fields.timestamp = Num(25))
                         => records[i].fields.distance = Num(250)
           /\ IsDef(tcxOut) =>
                \A i \in 1..Len(points) :
                    /\ points[i].DistanceMeters = ToFixed1(ExpectedDist(w, points[i].t))
                    /\ (~w.exportOpts.includeDistance) => points[i].DistanceMeters = Num(0)
                    /\ (w.exportOpts.includeDistance /\ w.distanceM = Some(Num(1000))
                          /\ w.durationSec = Some(Num(100)) /\ MaxTSec(w.series).n <= 100
                          /\ points[i].t = Num(25))
                         => points[i].DistanceMeters = Num(250)

\* C11 witness: 1000 m, a declared 100 s and points at 25 s and 120 s,
\* exported both ways: the record at 25 s carries 1000 * 25 / 120 and the
\* trackpoint 208.3
C11_Witness ==
    /\ IsDef(fitOut)
    /\ IsDef(tcxOut)
    /\ LET w == workouts[1]
       IN /\ w.exportOpts.includeDistance
          /\ w.distanceM = Some(Num(1000))
          /\ w.durationSec = Some(Num(100))
          /\ Len(w.series) = 2
          /\ w.series[1].tSec = Num(120)
          /\ w.series[2].tSec = Num(25)
          /\ FitMessages("record")[1].fields.distance = Q(625, 3)
          /\ Val(tcxOut).Trackpoints[1].DistanceMeters = Q(2083, 10)
          /\ FitMessages("record")[2].fields.distance = Num(1000)

\* the text a Workout supplies as its start: startedAtISO when a non-empty
\* string, else the raw payload's on / performedDate when a non-empty string
SuppliedStart(w) ==
    IF w.startedAtISO # <<>> /\ w.startedAtISO[1].kind # "empty" THEN w.startedAtISO
    ELSE IF w.rawStartISO # <<>> /\ w.rawStartISO[1].kind # "empty" THEN w.rawStartISO
    ELSE <<>>

\* a second call of an encoder on the same Workout, options and
\* enhancedCompatibility gives the output the first call gave
SameOutputAgain ==
    /\ (tcxOut # <<>> /\ tcxOut' # <<>>) => tcxOut' = tcxOut
    /\ (fitOut # <<>> /\ fitOut' # <<>>
          /\ fitOut'[1].enhancedCompatibility = fitOut[1].enhancedCompatibility)
         => fitOut' = fitOut

\* C12 as claimed: whenever startedAtISO or the raw payload's on /
\* performedDate supplies the start, two calls of an encoder on the same
\* (Workout, opts[, enhancedCompatibility]) give identical output.
C12_DeterministicWhenStartSupplied ==
    [][(workouts' = workouts /\ SuppliedStart(workouts[1]) # <<>>) => SameOutputAgain]_vars

\* C12 as amended: whenever the text supplied as the start (startedAtISO,
\* else the raw payload's on / performedDate) parses as a timestamp, two
\* calls of an encoder on the same (Workout, opts[, enhancedCompatibility])
\* give identical output, which names that timestamp as its start.
C12_DeterministicWhenStartParses ==
    [][(workouts' = workouts /\ SuppliedStart(workouts[1]) # <<>>
          /\ SuppliedStart(workouts[1])[1].kind = "iso")
         => /\ SameOutputAgain
            /\ tcxOut' # <<>> => tcxOut'[1].Id = SuppliedStart(workouts[1])[1]
            /\ fitOut' # <<>> =>
                 toISOString(fitOut'[1].messages[1].fields.time_created)
                    = SuppliedStart(workouts[1])[1]]_vars

\* C12 witness: a Workout without startedAtISO whose raw payload supplies
\* the start, exported both ways with that start
C12_Witness ==
    /\ IsDef(fitOut)
    /\ IsDef(tcxOut)
    /\ workouts[1].startedAtISO = Undef
    /\ workouts[1].rawStartISO = Some(IsoAt(4, 8, 30, 0))
    /\ Val(tcxOut).Id = IsoAt(4, 8, 30, 0)
    /\ Val(fitOut).messages[1].fields.time_created = (4 * 24 * 60 + 8 * 60 + 30) * 60000

-----------------------------------------------------------------------------
(* The derived scalars on their own: pickDistanceM, pickVerticalM and
   pickCadenceSpm called on one Metrics map *)

\* the keys the three chains read, in priority order
DistanceChain == <<"HDistance", "Distance", "DistanceMeters", "Km">>

VerticalChain == <<"Elevation", "Floors">>

CadenceChain == <<"AvgSpm", "Cadence">>

ChainKeys ==
    {DistanceChain[i] : i \in 1..4} \cup {VerticalChain[i] : i \in 1..2}
        \cup {CadenceChain[i] : i \in 1..2}

\* the value a key carries when present: 0, or a number of its own
KeyValue(key) ==
    CASE key = "HDistance" -> 11 [] key = "Distance" -> 12 [] key = "DistanceMeters" -> 13
      [] key = "Km" -> 14 [] key = "Elevation" -> 15 [] key = "Floors" -> 16
      [] key = "AvgSpm" -> 17 [] key = "Cadence" -> 18

\* every Metrics map over the chain keys
PickInputs ==
    UNION {[keys -> {0, 1}] : keys \in SUBSET ChainKeys}

MetricsOf(choice) ==
    [k \in DOMAIN choice |-> Num(choice[k] * KeyValue(k))]

InitPick ==
    /\ pc = "call"
    /\ \E choice \in PickInputs : fnArgs = MetricsOf(choice)
    /\ fnResult = [distanceM |-> Undef, verticalM |-> Undef, cadenceSpm |-> Undef]
    /\ IdleApp

\* const distanceM = pickDistanceM(metrics)
CallPickDistanceM ==
    /\ pc = "call"
    /\ fnResult.distanceM = Undef
    /\ fnResult' = [fnResult EXCEPT !.distanceM = Some(pickDistanceM(fnArgs))]
    /\ UNCHANGED <<pc, fnArgs>>
    /\ UNCHANGED idleVars

\* const verticalM = pickVerticalM(metrics)
CallPickVerticalM ==
    /\ pc = "call"
    /\ fnResult.verticalM = Undef
    /\ fnResult' = [fnResult EXCEPT !.verticalM = Some(pickVerticalM(fnArgs))]
    /\ UNCHANGED <<pc, fnArgs>>
    /\ UNCHANGED idleVars

\* const cadenceSpm = pickCadenceSpm(metrics)
CallPickCadenceSpm ==
    /\ pc = "call"
    /\ fnResult.cadenceSpm = Undef
    /\ fnResult' = [fnResult EXCEPT !.cadenceSpm = Some(pickCadenceSpm(fnArgs))]
    /\ UNCHANGED <<pc, fnArgs>>
    /\ UNCHANGED idleVars

NextPick == CallPickDistanceM \/ CallPickVerticalM \/ CallPickCadenceSpm

SpecPick == InitPick /\ [][NextPick]_vars

-----------------------------------------------------------------------------
(* Claims about the derived scalars (checked under SpecPick) *)

\* the value of the first key of a chain present in the map, with Km scaled
\* to metres; undefined when no key of the chain is present
FirstPresent(metrics, chain) ==
    LET present == {i \in 1..Len(chain) : chain[i] \in DOMAIN metrics}
    IN  IF present = {} THEN Undef
        ELSE LET i == CHOOSE n \in present : \A m \in present : n <= m
             IN  IF chain[i] = "Km" THEN Some(QMul(metrics[chain[i]], Num(1000)))
                 ELSE Some(metrics[chain[i]])

\* C13: distance is the first present of HDistance, Distance, DistanceMeters,
\* Km*1000; vertical is Elevation if present else Floors; cadence is AvgSpm if
\* present else Cadence; a lower-priority key is used only when every
\* higher-priority key is absent, and the result is undefined only when all
\* keys of the chain are absent.
C13_PriorityChains ==
    /\ IsDef(fnResult.distanceM) => Val(fnResult.distanceM) = FirstPresent(fnArgs, DistanceChain)
    /\ IsDef(fnResult.verticalM) => Val(fnResult.verticalM) = FirstPresent(fnArgs, VerticalChain)
    /\ IsDef(fnResult.cadenceSpm) => Val(fnResult.cadenceSpm) = FirstPresent(fnArgs, CadenceChain)

\* C13 witness: HDistance present as 0 beside later distance keys, only the
\* last key of the vertical chain, and no cadence key at all
C13_Witness ==
    /\ DOMAIN fnArgs = {"HDistance", "Distance", "Km", "Floors"}
    /\ fnArgs["HDistance"] = Num(0)
    /\ fnArgs["Distance"] = Num(12)
    /\ fnResult = [distanceM |-> Some(Some(Num(0))), verticalM |-> Some(Some(Num(16))),
                   cadenceSpm |-> Some(Undef)]

-----------------------------------------------------------------------------
(* The three normalisers on their own: extractWorkoutsFromIndoorJSON and
   extractWorkoutsFromOutdoorJSON on a parsed list, and
   extractWorkoutFromSinglePageJSON on a parsed single-workout payload *)

\* one entry {n, v} of a pr array
PrItem(n, v) == [n |-> n, v |-> v]

\* a pr value: an array of entries, or something that is no array
PrArray(items) == Some([isArray |-> TRUE, items |-> items])

NotAnArray == Some([isArray |-> FALSE, items |-> <<>>])

\* an element that is an object with none of the fields read
EmptyItem ==
    [isObject |-> TRUE, on |-> Undef, performedDate |-> Undef,
     performedData |-> Undef, physicalActivityData |-> Undef,
     duration |-> Undef, Duration |-> Undef, calories |-> Undef, Calories |-> Undef]

\* the elements a list carries: null or a scalar, {}, an item whose pr mixes
\* numbers, numeric strings, a malformed string, null and a nameless entry, an
\* item with physicalActivityData.PR only, an item whose pr is no array and
\* that has top-level totals, an item with a start and an empty pr
ListItems ==
    {[EmptyItem EXCEPT !.isObject = FALSE],
     EmptyItem,
     [EmptyItem EXCEPT !.performedData =
         Some([pr |-> PrArray(<<PrItem(Some("Duration"), Some(JNum(Num(600)))),
                                PrItem(Some("Calories"), Some(JStr("12"))),
                                PrItem(Some("AvgHr"), Some(JStr("abc"))),
                                PrItem(Undef, Some(JNum(Num(3)))),
                                PrItem(Some("HDistance"), Some(JNull)),
                                PrItem(Some("MaxHr"), Undef)>>),
               PR |-> Undef])],
     [EmptyItem EXCEPT !.performedData = Some([pr |-> Undef, PR |-> Undef]),
                       !.physicalActivityData =
         Some([pr |-> Undef,
               PR |-> PrArray(<<PrItem(Some("Floors"), Some(JNum(Num(16)))),
                                PrItem(Some("AvgPower"), Some(JStr("4.5"))),
                                PrItem(Some("Cadence"), Some(JNum(Num(0)))),
                                PrItem(Some("Km"), Some(JStr("1e2")))>>)])],
     [EmptyItem EXCEPT !.performedData = Some([pr |-> NotAnArray, PR |-> PrArray(<<>>)]),
                       !.duration = Some(JStr(" 7 ")),
                       !.calories = Some(JStr("x")),
                       !.Calories = Some(JNum(Num(50)))],
     [EmptyItem EXCEPT !.on = Some(IsoAt(3, 6, 0, 0)),
                       !.performedData =
         Some([pr |-> PrArray(<<PrItem(Some("MaxHr"), Some(JNum(Num(150)))),
                                PrItem(Some("MaxHr"), Some(JStr("NaN")))>>),
               PR |-> Undef])]}

\* a parsed JSON value as the list normalisers see it: an array of elements,
\* or an object with the fields items, activities and data
ArrayOf(elems) ==
    [isArray |-> TRUE, elems |-> elems, items |-> Undef, activities |-> Undef, data |-> Undef]

ObjectOf(items, activities, data) ==
    [isArray |-> FALSE, elems |-> <<>>, items |-> items, activities |-> activities, data |-> data]

ListArrays == {ArrayOf(l) : l \in BoundedSeq(ListItems, MaxItems)}

ListObjects ==
    {ObjectOf(Undef, Undef, Undef), ObjectOf(NotAnArray, PrArray(<<EmptyItem>>), Undef)}
      \cup {ObjectOf(PrArray(<<x>>), Undef, Undef) : x \in ListItems}
      \cup {ObjectOf(Undef, PrArray(<<x>>), Undef) : x \in ListItems}
      \cup {ObjectOf(Undef, Undef, PrArray(<<x>>)) : x \in ListItems}

\* single-workout payloads with and without each channel and each total
RichPayloads ==
    {Payload(h, s, d, data, Some(IsoAt(3, 0, 0, 0))) :
        h \in BoundedSeq(HrEntries, 1),
        s \in {<<>>,
               <<[t |-> Some(Num(0)), vs |-> <<>>], [t |-> Some(Num(5)), vs |-> <<>>]>>,
               <<[t |-> Some(Num(0)), vs |-> <<Some(Num(100)), Some(Num(80)), Some(Num(3))>>]>>},
        d \in {<<>>,
               <<[i |-> Some(Num(0)), name |-> Some("Power"), um |-> Undef],
                 [i |-> Some(Num(1)), name |-> Some("RPM"), um |-> Undef],
                 [i |-> Some(Num(2)), name |-> Some("Floors"), um |-> Undef]>>},
        data \in {<<>>,
                  <<[property |-> Some("Calories"), name |-> Undef, rawValue |-> Some(Num(50)),
                     value |-> Undef, uM |-> Undef],
                    [property |-> Some("HDistance"), name |-> Undef,
                     rawValue |-> Some(Num(1200)), value |-> Undef, uM |-> Some(" M ")]>>}}

InitNormalize ==
    /\ pc = "call"
    /\ \/ \E obj \in ListArrays \cup {ObjectOf(Undef, Undef, Undef)} :
             fnArgs = [kind |-> "indoor", obj |-> obj]
       \/ \E obj \in ListArrays \cup ListObjects : fnArgs = [kind |-> "outdoor", obj |-> obj]
       \/ \E json \in RichPayloads : fnArgs = [kind |-> "single", obj |-> json]
    /\ fnResult = Undef
    /\ IdleApp

\* extractWorkoutsFromIndoorJSON(obj)
NormalizeIndoor ==
    /\ pc = "call"
    /\ fnArgs.kind = "indoor"
    /\ fnResult' = Some(extractWorkoutsFromIndoorJSON(fnArgs.obj))
    /\ pc' = "returned"
    /\ UNCHANGED fnArgs
    /\ UNCHANGED idleVars

\* extractWorkoutsFromOutdoorJSON(obj)
NormalizeOutdoor ==
    /\ pc = "call"
    /\ fnArgs.kind = "outdoor"
    /\ fnResult' = Some(extractWorkoutsFromOutdoorJSON(fnArgs.obj))
    /\ pc' = "returned"
    /\ UNCHANGED fnArgs
    /\ UNCHANGED idleVars

\* extractWorkoutFromSinglePageJSON(json, preferredStartTime), the result as
\* the list [workout]
NormalizeSinglePage ==
    /\ pc = "call"
    /\ fnArgs.kind = "single"
    /\ fnResult' = Some(<<extractWorkoutFromSinglePageJSON(fnArgs.obj, DefaultStartTime,
                                                           SessionZoneMin)>>)
    /\ pc' = "returned"
    /\ UNCHANGED fnArgs
    /\ UNCHANGED idleVars

NextNormalize == NormalizeIndoor \/ NormalizeOutdoor \/ NormalizeSinglePage

SpecNormalize == InitNormalize /\ [][NextNormalize]_vars

-----------------------------------------------------------------------------
(* Claims about the normalisers (checked under SpecNormalize) *)

\* the array a list normaliser was handed: the value itself, or for the
\* outdoor one the first present of its fields items, activities, data
InputArray(args) ==
    IF args.obj.isArray THEN Some(args.obj.elems)
    ELSE IF args.kind = "outdoor"
    THEN LET field == IF args.obj.items # <<>> THEN args.obj.items
                      ELSE IF args.obj.activities # <<>> THEN args.obj.activities
                      ELSE args.obj.data
         IN IF field # <<>> /\ field[1].isArray THEN Some(field[1].items) ELSE Undef
    ELSE Undef

\* the strings that are the text of a finite number
NumericStrings == {"12", "4.5", " 7 ", "", "1e2"}

\* a JSON value that is or parses to a finite number
IsFiniteNumber(v) ==
    v # <<>> /\ (v[1].type = "number" \/ (v[1].type = "string" /\ v[1].str \in NumericStrings))

\* every entry of every pr / PR array of an element
AllPrItems(raw) ==
    IF ~raw.isObject THEN {}
    ELSE UNION {
        IF holder = <<>> THEN {}
        ELSE UNION {IF pr = <<>> \/ ~pr[1].isArray THEN {}
                    ELSE {pr[1].items[i] : i \in 1..Len(pr[1].items)}
                    : pr \in {holder[1].pr, holder[1].PR}}
        : holder \in {raw.performedData, raw.physicalActivityData}}

\* C14: the list normalisers return exactly one Workout per element of the
\* input array, for any elements, each with a metrics map that holds only
\* named entries whose value is or parses to a finite number, and that is
\* empty when the element has no such entry.
C14_NormalizationNeverFails ==
    (fnArgs.kind \in {"indoor", "outdoor"} /\ IsDef(fnResult) /\ IsDef(InputArray(fnArgs))) =>
        LET elems == Val(InputArray(fnArgs))
            out == Val(fnResult)
        IN /\ Len(out) = Len(elems)
           /\ \A i \in 1..Len(elems) :
                /\ DOMAIN out[i].metrics \subseteq
                      {item.n[1] : item \in {x \in AllPrItems(elems[i]) :
                                               x.n # <<>> /\ IsFiniteNumber(x.v)}}
                /\ \A k \in DOMAIN out[i].metrics :
                      \E item \in AllPrItems(elems[i]) :
                         /\ item.n = <<k>>
                         /\ IsFiniteNumber(item.v)
                         /\ out[i].metrics[k] =
                               (IF item.v[1].type = "number" THEN item.v[1].num
                                ELSE NumberOf(item.v[1].str)[1])

\* C14 witness: a list of a non-object and an item whose pr has a malformed
\* string, a null and a nameless entry gives two workouts, the first with
\* no metrics, the second with Duration and Calories only
C14_Witness ==
    /\ fnArgs.kind = "outdoor"
    /\ fnArgs.obj.isArray
    /\ Len(fnArgs.obj.elems) = 2
    /\ ~fnArgs.obj.elems[1].isObject
    /\ IsDef(fnResult)
    /\ Len(Val(fnResult)) = 2
    /\ DOMAIN Val(fnResult)[1].metrics = {}
    /\ DOMAIN Val(fnResult)[2].metrics = {"Duration", "Calories"}
    /\ Val(fnResult)[2].metrics["Calories"] = Num(12)

\* the six options that follow the workout's data
OptionsFollowData(w) ==
    /\ w.exportOpts.includeHrSeries <=> ("AvgHr" \in DOMAIN w.metrics \/ "MaxHr" \in DOMAIN w.metrics)
    /\ w.exportOpts.includePowerSeries <=> "AvgPower" \in DOMAIN w.metrics
    /\ w.exportOpts.includeCadenceSeries <=> w.cadenceSpm # <<>>
    /\ w.exportOpts.includeCalories <=> w.calories # <<>>
    /\ w.exportOpts.includeDistance <=> w.distanceM # <<>>
    /\ w.exportOpts.includeVerticalAsAltitude <=> w.verticalM # <<>>

\* C15 as claimed: for every Workout of any of the three normalisers each of
\* the seven exportOpts booleans is true exactly when its backing data
\* exists, includeMetricsInNotes exactly when there are metrics to note.
C15_SevenOptionsFollowData ==
    IsDef(fnResult) =>
        \A i \in 1..Len(Val(fnResult)) :
            /\ OptionsFollowData(Val(fnResult)[i])
            /\ Val(fnResult)[i].exportOpts.includeMetricsInNotes
                  <=> DOMAIN Val(fnResult)[i].metrics # {}

\* C15 as amended: for every Workout of any of the three normalisers,
\* includeHrSeries, includePowerSeries, includeCadenceSeries, includeCalories,
\* includeDistance and includeVerticalAsAltitude are each true exactly when
\* their backing data exists, and includeMetricsInNotes is false whatever
\* the metrics.
C15_SixOptionsFollowData ==
    IsDef(fnResult) =>
        \A i \in 1..Len(Val(fnResult)) :
            /\ OptionsFollowData(Val(fnResult)[i])
            /\ Val(fnResult)[i].exportOpts.includeMetricsInNotes = FALSE

\* C15 witness: a list item normalised to a Workout with heart-rate and
\* calories metrics and no distance, its options set accordingly
C15_Witness ==
    /\ fnArgs.kind = "indoor"
    /\ IsDef(fnResult)
    /\ Len(Val(fnResult)) = 1
    /\ DOMAIN Val(fnResult)[1].metrics = {"MaxHr"}
    /\ Val(fnResult)[1].exportOpts =
          [includeHrSeries |-> TRUE, includeCadenceSeries |-> FALSE,
           includePowerSeries |-> FALSE, includeMetricsInNotes |-> FALSE,
           includeCalories |-> FALSE, includeDistance |-> FALSE,
           includeVerticalAsAltitude |-> FALSE]

-----------------------------------------------------------------------------
(* Claims about the options and the optional elements (checked under SpecEncode) *)

\* the FIT messages named record, lap or session
ChannelMessages(messages) ==
    {messages[i] : i \in {j \in 1..Len(messages) :
                             messages[j].name \in {"record", "lap", "session"}}}

\* no message carries a value in any of the fields named
NoFitField(messages, fieldNames) ==
    \A msg \in ChannelMessages(messages) :
        \A f \in fieldNames \cap DOMAIN msg.fields : msg.fields[f] = <<>>

\* no trackpoint carries the element named
NoTcxElement(doc, element) ==
    \A i \in 1..Len(doc.Trackpoints) : doc.Trackpoints[i][element] = <<>>

\* C16: each export option gates its channel in the whole output: with
\* includeHrSeries false no FIT record, lap or session and no TCX trackpoint
\* carries a heart-rate value, with includePowerSeries false none carries
\* power, avg_power or total_work; likewise cadence, vertical, distance (no
\* distance but 0, no speed) and calories.
C16_OptionsGateChannels ==
    LET opts == workouts[1].exportOpts
    IN /\ IsDef(fitOut) =>
            LET messages == Val(fitOut).messages
            IN /\ ~opts.includeHrSeries =>
                     NoFitField(messages, {"heart_rate", "avg_heart_rate", "max_heart_rate"})
               /\ ~opts.includePowerSeries =>
                     NoFitField(messages, {"power", "avg_power", "total_work"})
               /\ ~opts.includeCadenceSeries => NoFitField(messages, {"cadence", "avg_cadence"})
               /\ ~opts.includeVerticalAsAltitude =>
                     NoFitField(messages, {"altitude", "total_ascent", "total_descent"})
               /\ ~opts.includeCalories => NoFitField(messages, {"total_calories"})
               /\ ~opts.includeDistance =>
                     /\ NoFitField(messages, {"avg_speed", "max_speed"})
                     /\ \A msg \in ChannelMessages(messages) :
                           /\ "distance" \in DOMAIN msg.fields => msg.fields.distance = Num(0)
                           /\ "total_distance" \in DOMAIN msg.fields
                                 => msg.fields.total_distance = Num(0)
       /\ IsDef(tcxOut) =>
            /\ ~opts.includeHrSeries => NoTcxElement(Val(tcxOut), "HeartRateBpm")
            /\ ~opts.includePowerSeries => NoTcxElement(Val(tcxOut), "Watts")
            /\ ~opts.includeCadenceSeries => NoTcxElement(Val(tcxOut), "Cadence")
            /\ ~opts.includeVerticalAsAltitude => NoTcxElement(Val(tcxOut), "AltitudeMeters")
            /\ ~opts.includeCalories => Val(tcxOut).Calories = <<>>
            /\ ~opts.includeDistance =>
                  /\ Val(tcxOut).DistanceMeters = Num(0)
                  /\ \A i \in 1..Len(Val(tcxOut).Trackpoints) :
                        Val(tcxOut).Trackpoints[i].DistanceMeters = Num(0)

\* the series has a point at the trackpoint's offset with a value of its
\* own for the channel
HasOwnValue(w, tp, channel) ==
    \E i \in 1..Len(w.series) :
        /\ MathMax(Num(0), MathRound(w.series[i].tSec)) = tp.t
        /\ w.series[i][channel] # <<>>

\* the workout-level value a trackpoint falls back to exists
HasDefaultValue(w, channel) ==
    CASE channel = "hr" -> "AvgHr" \in DOMAIN w.metrics \/ "MaxHr" \in DOMAIN w.metrics
      [] channel = "watts" -> "AvgPower" \in DOMAIN w.metrics
      [] channel = "cadence" ->
            \/ "AvgSpm" \in DOMAIN w.metrics
            \/ "Cadence" \in DOMAIN w.metrics
            \/ "Move" \in DOMAIN w.metrics
      [] channel = "verticalM" -> w.verticalM # <<>>

\* an optional element is left out or holds a number, never an empty value
AbsentOrNumber(element) ==
    element = <<>> \/ (Len(element) = 1 /\ DOMAIN element[1] = {"n", "d"})

\* C17: in every trackpoint of workoutToTCX, series path and synthetic path,
\* AltitudeMeters, HeartRateBpm, Cadence or Watts is present only if its
\* option is true and a value exists for the point (its own or the
\* workout-level default); otherwise the element is absent, and one that is
\* present holds a number.
C17_OptionalElements ==
    IsDef(tcxOut) =>
        LET w == workouts[1]
            opts == w.exportOpts
            Allowed(tp, option, channel) ==
                opts[option] /\ (HasOwnValue(w, tp, channel) \/ HasDefaultValue(w, channel))
        IN \A i \in 1..Len(Val(tcxOut).Trackpoints) :
              LET tp == Val(tcxOut).Trackpoints[i]
              IN /\ \A e \in {"AltitudeMeters", "HeartRateBpm", "Cadence", "Watts"} :
                       AbsentOrNumber(tp[e])
                 /\ tp.HeartRateBpm # <<>> => Allowed(tp, "includeHrSeries", "hr")
                 /\ tp.Cadence # <<>> => Allowed(tp, "includeCadenceSeries", "cadence")
                 /\ tp.Watts # <<>> => Allowed(tp, "includePowerSeries", "watts")
                 /\ tp.AltitudeMeters # <<>> =>
                       Allowed(tp, "includeVerticalAsAltitude", "verticalM")

\* C17 witness: a TCX document of a series, every option on, in which one
\* trackpoint has all four elements and another has none of them
C17_Witness ==
    /\ IsDef(tcxOut)
    /\ hasSeries(workouts[1])
    /\ workouts[1].exportOpts = AllOpts(TRUE)
    /\ \E i, j \in 1..Len(Val(tcxOut).Trackpoints) :
          /\ \A e \in {"AltitudeMeters", "HeartRateBpm", "Cadence", "Watts"} :
                /\ Val(tcxOut).Trackpoints[i][e] # <<>>
                /\ Val(tcxOut).Trackpoints[j][e] = <<>>

-----------------------------------------------------------------------------
(* The two import flows from their source text: onParsePastedJson on the
   text of the JSON box, onZipSelected on a chosen file *)

\* a parsed JSON value as the import flows read it: whether it is an object
\* (asRecord), the object asRecord(root.data) ?? root the single-workout
\* extractor reads, and the value as the list normalisers read it
Parsed(isObject, core, list) == [isObject |-> isObject, core |-> core, list |-> list]

\* {} as a single-workout payload
EmptyPayload == Payload(<<>>, <<>>, <<>>, <<>>, Undef)

\* a list element with a start and one metric
StartedItem ==
    [EmptyItem EXCEPT !.on = Some(IsoAt(3, 6, 0, 0)),
                      !.performedData =
        Some([pr |-> PrArray(<<PrItem(Some("MaxHr"), Some(JNum(Num(150))))>>), PR |-> Undef])]

\* String.prototype.trim on the texts below
Trim(text) ==
    CASE text = "  " -> ""
      [] text = " {\"date\":\"1970-01-04T00:00:00.000Z\"} "
            -> "{\"date\":\"1970-01-04T00:00:00.000Z\"}"
      [] OTHER -> text

\* JSON.parse(text): <<>> when it throws a SyntaxError, else the value
JSONParse(text) ==
    CASE text = "null" -> Some(Parsed(FALSE, EmptyPayload, ObjectOf(Undef, Undef, Undef)))
      [] text = "7" -> Some(Parsed(FALSE, EmptyPayload, ObjectOf(Undef, Undef, Undef)))
      [] text = "[]" -> Some(Parsed(FALSE, EmptyPayload, ArrayOf(<<>>)))
      [] text = "{}" -> Some(Parsed(TRUE, EmptyPayload, ObjectOf(Undef, Undef, Undef)))
      [] text = "{\"date\":\"1970-01-04T00:00:00.000Z\"}"
            -> Some(Parsed(TRUE, Payload(<<>>, <<>>, <<>>, <<>>, Some(IsoAt(3, 0, 0, 0))),
                           ObjectOf(Undef, Undef, Undef)))
      [] text = "{\"analitics\":{\"hr\":[{\"t\":0,\"hr\":100}],\"samples\":[{\"t\":0}]}}"
            -> Some(Parsed(TRUE,
                           Payload(<<[t |-> Some(Num(0)), hr |-> Some(Num(100))]>>,
                                   <<[t |-> Some(Num(0)), vs |-> <<>>]>>, <<>>, <<>>, Undef),
                           ObjectOf(Undef, Undef, Undef)))
      [] text = "[{\"on\":\"1970-01-04T06:00:00.000Z\",\"performedData\":{\"pr\":[{\"n\":\"MaxHr\",\"v\":150}]}}]"
            -> Some(Parsed(FALSE, EmptyPayload, ArrayOf(<<StartedItem>>)))
      [] text = "[null,{}]"
            -> Some(Parsed(FALSE, EmptyPayload,
                           ArrayOf(<<[EmptyItem EXCEPT !.isObject = FALSE], EmptyItem>>)))
      [] OTHER -> Undef

\* what the JSON box can hold
PastedTexts ==
    {"", "  ", "{oops", "null", "7", "[]", "{}",
     " {\"date\":\"1970-01-04T00:00:00.000Z\"} ",
     "{\"analitics\":{\"hr\":[{\"t\":0,\"hr\":100}],\"samples\":[{\"t\":0}]}}"}

\* file.name.toLowerCase().endsWith(".zip")
EndsWithZip(name) == name \in {"export.zip", "EXPORT.ZIP", "broken.zip"}

\* String.prototype.toLowerCase on one character
LowerChar(c) ==
    CASE c = "A" -> "a" [] c = "B" -> "b" [] c = "C" -> "c" [] c = "D" -> "d" [] c = "E" -> "e" [] c = "F" -> "f"
      [] c = "G" -> "g" [] c = "H" -> "h" [] c = "I" -> "i" [] c = "J" -> "j" [] c = "K" -> "k" [] c = "L" -> "l"
      [] c = "M" -> "m" [] c = "N" -> "n" [] c = "O" -> "o" [] c = "P" -> "p" [] c = "Q" -> "q" [] c = "R" -> "r"
      [] c = "S" -> "s" [] c = "T" -> "t" [] c = "U" -> "u" [] c = "V" -> "v" [] c = "W" -> "w" [] c = "X" -> "x"
      [] c = "Y" -> "y" [] c = "Z" -> "z"
      [] OTHER -> c

\* s.toLowerCase()
toLowerCase(s) == [i \in 1..Len(s) |-> LowerChar(s[i])]

\* s.includes(word)
includes(s, word) ==
    \E i \in 1..(Len(s) - Len(word) + 1) : SubSeq(s, i, i + Len(word) - 1) = word

\* the characters of the entry names below
Chars(name) ==
    CASE name = "indooractivities-1.json"
            -> <<"i", "n", "d", "o", "o", "r", "a", "c", "t", "i", "v", "i", "t", "i", "e", "s", "-", "1", ".", "j", "s", "o", "n">>
      [] name = "indooractivities-2.json"
            -> <<"i", "n", "d", "o", "o", "r", "a", "c", "t", "i", "v", "i", "t", "i", "e", "s", "-", "2", ".", "j", "s", "o", "n">>
      [] name = "Export/IndoorActivities-3.JSON"
            -> <<"E", "x", "p", "o", "r", "t", "/", "I", "n", "d", "o", "o", "r", "A", "c", "t", "i", "v", "i", "t", "i", "e", "s", "-", "3", ".", "J", "S", "O", "N">>
      [] name = "indooractivities-4.json"
            -> <<"i", "n", "d", "o", "o", "r", "a", "c", "t", "i", "v", "i", "t", "i", "e", "s", "-", "4", ".", "j", "s", "o", "n">>
      [] name = "masterdata.json"
            -> <<"m", "a", "s", "t", "e", "r", "d", "a", "t", "a", ".", "j", "s", "o", "n">>
      [] name = "biometrics-1.json"
            -> <<"b", "i", "o", "m", "e", "t", "r", "i", "c", "s", "-", "1", ".", "j", "s", "o", "n">>
      [] name = "indooractivities-5.json.bak"
            -> <<"i", "n", "d", "o", "o", "r", "a", "c", "t", "i", "v", "i", "t", "i", "e", "s", "-", "5", ".", "j", "s", "o", "n", ".", "b", "a", "k">>
      [] name = "indooractivities-old/outdooractivities-1.json"
            -> <<"i", "n", "d", "o", "o", "r", "a", "c", "t", "i", "v", "i", "t", "i", "e", "s", "-", "o", "l", "d", "/", "o", "u", "t", "d", "o", "o", "r", "a", "c", "t", "i", "v", "i", "t", "i", "e", "s", "-", "1", ".", "j", "s", "o", "n">>
      [] name = "my-indooractivities-6.json"
            -> <<"m", "y", "-", "i", "n", "d", "o", "o", "r", "a", "c", "t", "i", "v", "i", "t", "i", "e", "s", "-", "6", ".", "j", "s", "o", "n">>

\* s.startsWith(prefix), s.endsWith(suffix)
startsWith(s, prefix) == Len(s) >= Len(prefix) /\ SubSeq(s, 1, Len(prefix)) = prefix

endsWith(s, suffix) ==
    Len(s) >= Len(suffix) /\ SubSeq(s, Len(s) - Len(suffix) + 1, Len(s)) = suffix

\* lower.split("/").pop(): what follows the last "/", all of it without one
RECURSIVE Basename(_)
Basename(s) ==
    IF \E i \in 1..Len(s) : s[i] = "/"
    THEN Basename(SubSeq(s, (CHOOSE i \in 1..Len(s) : s[i] = "/") + 1, Len(s)))
    ELSE s

\* the entry filter taking every .json entry
IsTarget_EveryJson(name) ==
    endsWith(Basename(toLowerCase(Chars(name))), <<".", "j", "s", "o", "n">>)

\* the filter on the archive's entry names: the lower-cased basename starts
\* with "indooractivities-" and ends with ".json"
IsTarget(name) ==
    LET lower == toLowerCase(Chars(name))
        basename == Basename(lower)
    IN /\ startsWith(basename, <<"i", "n", "d", "o", "o", "r", "a", "c", "t", "i", "v", "i", "t", "i", "e", "s", "-">>)
       /\ endsWith(basename, <<".", "j", "s", "o", "n">>)

\* the entries an archive can hold: name and text
ZipEntries ==
    {[name |-> "indooractivities-1.json", text |-> "{oops"],
     [name |-> "indooractivities-2.json", text |-> "[]"],
     [name |-> "Export/IndoorActivities-3.JSON",
      text |-> "[{\"on\":\"1970-01-04T06:00:00.000Z\",\"performedData\":{\"pr\":[{\"n\":\"MaxHr\",\"v\":150}]}}]"],
     [name |-> "indooractivities-4.json", text |-> "{}"],
     [name |-> "masterdata.json", text |-> "[null,{}]"]}

\* the files the user can choose: none, one that is no .zip, one JSZip cannot
\* load, archives of up to MaxItems entries
ZipFiles ==
    {Undef,
     Some([name |-> "notes.txt", loads |-> TRUE, entries |-> <<>>]),
     Some([name |-> "broken.zip", loads |-> FALSE, entries |-> <<>>])}
      \cup {Some([name |-> n, loads |-> TRUE, entries |-> e]) :
               n \in {"export.zip", "EXPORT.ZIP"}, e \in BoundedSeq(ZipEntries, MaxItems)}

\* targetNames = fileEntries.filter(...), as the entries themselves
RECURSIVE targetNames(_)
targetNames(entries) ==
    IF entries = <<>> THEN <<>>
    ELSE (IF IsTarget(Head(entries).name) THEN <<Head(entries)>> ELSE <<>>)
            \o targetNames(Tail(entries))

\* the loop over targetNames: an entry whose text JSON.parse rejects is
\* skipped (catch { continue }), the others add their indoor workouts
RECURSIVE all(_)
all(targets) ==
    IF targets = <<>> THEN <<>>
    ELSE LET obj == JSONParse(Head(targets).text)
         IN (IF IsDef(obj) THEN extractWorkoutsFromIndoorJSON(Val(obj).list) ELSE <<>>)
               \o all(Tail(targets))

InitImport ==
    /\ pc = "input"
    /\ jsonInput = ""
    /\ FreshApp
    /\ fitOut = Undef
    /\ tcxOut = Undef
    /\ fnArgs = Undef
    /\ fnResult = Undef

\* the text box: onChange={(e) => setJsonInput(e.target.value)}
SetJsonInput ==
    /\ \E text \in PastedTexts : jsonInput' = text
    /\ UNCHANGED <<pc, workouts, fitOut, tcxOut, fnArgs, fnResult>>
    /\ UNCHANGED appVars

\* onParsePastedJson(): resetParsedState(), then by the trimmed text: empty,
\* JSON.parse throws, no workout, a workout; fnArgs keeps what the handler
\* ran on, the text as the one entry of a nameless source
OnParsePastedJson ==
    LET text == Trim(jsonInput)
        parsed == JSONParse(text)
        ok == text # "" /\ IsDef(parsed) /\ Val(parsed).isObject
    IN /\ error' =
            IF text = ""
            THEN Some("Paste a JSON object from a single MyWellness Training Workout page first.")
            ELSE IF ~IsDef(parsed) THEN Some("Invalid JSON: SyntaxError")
            ELSE IF ~Val(parsed).isObject
            THEN Some("Couldn't find a supported single-workout payload in this JSON.")
            ELSE Undef
       /\ workouts' =
            IF ok THEN <<extractWorkoutFromSinglePageJSON(Val(parsed).core, DefaultStartTime,
                                                          SessionZoneMin)>>
            ELSE <<>>
       /\ zipName' = IF ok THEN Some("mywellness-single-workout") ELSE Undef
       /\ didParse' = ok
       /\ lastImportMode' = IF ok THEN Some("json") ELSE Undef
       /\ pc' = "pasted"
       /\ fnArgs' = Some([name |-> "", loads |-> TRUE,
                          entries |-> <<[name |-> "", text |-> text]>>])
       /\ fnResult' = Some(<<>>)
       /\ UNCHANGED <<jsonInput, fitOut, tcxOut>>

\* onZipSelected(file), run to its end: resetParsedState(), then by the
\* file: none, no .zip name, loadAsync throws, no target entry, no workout,
\* workouts; zipName is set as soon as the archive has loaded; fnArgs keeps
\* the file the handler ran on, fnResult the names of the entries whose
\* content it read (zip.files[name].async("string"))
ZipSelected(file) ==
    LET f == Val(file)
        named == IsDef(file) /\ EndsWithZip(f.name)
        loaded == named /\ f.loads
        targets == IF loaded THEN targetNames(f.entries) ELSE <<>>
        found == IF loaded THEN all(targets) ELSE <<>>
        ok == loaded /\ Len(found) > 0
    IN /\ error' =
            IF ~IsDef(file) THEN Undef
            ELSE IF ~named THEN Some("Please choose a .zip file exported from MyWellness.")
            ELSE IF ~loaded THEN Some("Failed to read ZIP: Error")
            ELSE IF Len(targets) = 0
            THEN Some("Could not find indooractivities-*.json in this ZIP. Make sure it's a full MyWellness export.")
            ELSE IF Len(found) = 0
            THEN Some("Found activity files but couldn't parse any workouts. The export schema may differ.")
            ELSE Undef
       /\ zipName' = IF loaded THEN Some(f.name) ELSE Undef
       /\ workouts' = IF ok THEN found ELSE <<>>
       /\ didParse' = ok
       /\ lastImportMode' = IF ok THEN Some("zip") ELSE Undef
       /\ pc' = "zipped"
       /\ fnArgs' = file
       /\ fnResult' = Some([i \in 1..Len(targets) |-> targets[i].name])
       /\ UNCHANGED <<jsonInput, fitOut, tcxOut>>

\* onZipSelected on any of the files
OnZipSelected == \E file \in ZipFiles : ZipSelected(file)

NextImport == SetJsonInput \/ OnParsePastedJson \/ OnZipSelected

SpecImport == InitImport /\ [][NextImport]_vars

-----------------------------------------------------------------------------
(* Claims about the import flows (checked under SpecImport) *)

\* the source texts the last import read: the trimmed text of the JSON box,
\* or the texts of the archive's target entries
SourceTexts ==
    IF pc = "pasted" THEN {fnArgs[1].entries[1].text}
    ELSE IF pc = "zipped" /\ fnArgs # <<>> /\ fnArgs[1].loads
              /\ fnArgs[1].name \in {"export.zip", "EXPORT.ZIP"}
    THEN {fnArgs[1].entries[i].text :
             i \in {j \in 1..Len(fnArgs[1].entries) :
                       IsTarget(fnArgs[1].entries[j].name)}}
    ELSE {}

\* the texts that are no JSON
NotJson == {"{oops"}

\* the last import read source text, none of it valid JSON
ParseFailure == SourceTexts # {} /\ SourceTexts \subseteq NotJson /\ "" \notin SourceTexts

\* the last import read source text, all of it valid JSON, and found no workout
NoWorkouts ==
    SourceTexts # {} /\ SourceTexts \cap (NotJson \cup {""}) = {} /\ workouts = <<>>

\* C18: an import whose source text is not valid JSON and an import whose
\* JSON parses but yields no extractable workouts end with different
\* reported errors, in both import flows: an import of the second kind run
\* after one of the first kind in the same flow changes the error shown.
C18_DistinctErrors ==
    [][(ParseFailure /\ NoWorkouts' /\ pc' = pc) => error' # error]_vars

\* C19: when an import fails because the source text is not valid JSON, the
\* failure is reported and the attempt leaves no partial state: error is
\* non-null, workouts is empty, didParse is false, lastImportMode is null and
\* zipName is null, in both flows.
C19_NoPartialState ==
    ParseFailure =>
        /\ error # <<>>
        /\ workouts = <<>>
        /\ didParse = FALSE
        /\ lastImportMode = <<>>
        /\ zipName = <<>>

-----------------------------------------------------------------------------
(* The start of a single-workout payload on its own:
   extractWorkoutFromSinglePageJSON on a payload with nothing but a date,
   under each start-time text and session time zone *)

\* what core.date can be: absent, a timestamp at midnight or late in the UTC
\* day, a text that is no date, the empty text, a number
StartDates ==
    {Undef, Some(IsoAt(3, 0, 0, 0)), Some(IsoAt(3, 22, 30, 15)),
     Some(Text("text")), Some(Text("empty")), Some(Text("number"))}

\* what the start-time box can hold, as characters
StartTimes ==
    {<<>>,
     <<"1", "2", ":", "0", "0">>,
     <<"7", ":", "0", "5">>,
     <<"0", "7", ":", "0", "5", ":", "0", "9">>,
     <<"2", "3", ":", "5", "9", ":", "5", "9">>,
     <<"0", "0", ":", "0", "0">>,
     <<"2", "4", ":", "0", "0">>,
     <<"1", "2", ":", "6", "0">>,
     <<"1", "2", ":", "0", "0", ":", "6", "0">>,
     <<"1", "2", "0", "0">>,
     <<"1", "2", ":", "0">>,
     <<" ", "1", "2", ":", "0", "0">>,
     <<"1", "2", ":", "0", "0", " ">>,
     <<"a", "b", ":", "c", "d">>,
     <<"1", "2", "3", ":", "0", "0">>,
     <<"1", ":", "2", ":", "3">>,
     <<"-", "1", ":", "0", "0">>,
     <<"9", ":", "3", "0", ":", "5">>,
     <<"1", "2", ":", "0", "0", ":", "0", "0", ":", "0", "0">>}

\* the session's offset from UTC, in minutes
ZoneOffsets == {-300, 0, 60, 330}

InitStart ==
    /\ pc = "call"
    /\ fnArgs \in [date : StartDates, preferredStartTime : StartTimes, tzMin : ZoneOffsets]
    /\ fnResult = Undef
    /\ IdleApp

\* extractWorkoutFromSinglePageJSON(core, preferredStartTime).startedAtISO
CallExtractStart ==
    /\ pc = "call"
    /\ fnResult' = Some(extractWorkoutFromSinglePageJSON(
                            Payload(<<>>, <<>>, <<>>, <<>>, fnArgs.date),
                            fnArgs.preferredStartTime, fnArgs.tzMin).startedAtISO)
    /\ pc' = "returned"
    /\ UNCHANGED fnArgs
    /\ UNCHANGED idleVars

NextStart == CallExtractStart

SpecStart == InitStart /\ [][NextStart]_vars

-----------------------------------------------------------------------------
(* Claims about the start-time override (checked under SpecStart) *)

DigitChar(n) ==
    CASE n = 0 -> "0" [] n = 1 -> "1" [] n = 2 -> "2" [] n = 3 -> "3" [] n = 4 -> "4"
      [] n = 5 -> "5" [] n = 6 -> "6" [] n = 7 -> "7" [] n = 8 -> "8" [] n = 9 -> "9"

\* n below 100 written with two digits
Pad2(n) == <<DigitChar(n \div 10), DigitChar(n % 10)>>

\* the hour written with one or two digits
HourTexts(hh) == {Pad2(hh)} \cup (IF hh < 10 THEN {<<DigitChar(hh)>>} ELSE {})

\* the times of day <<hh, mm, ss>> a text of the form H:MM or H:MM:SS names
\* with hour < 24, minute < 60 and second < 60; empty for any other text
OverrideTimes(text) ==
    {t \in (0..23) \X (0..59) \X (0..59) :
        \E h \in HourTexts(t[1]) :
            LET prefix == h \o <<":">> \o Pad2(t[2])
            IN \/ t[3] = 0 /\ text = prefix
               \/ text = prefix \o <<":">> \o Pad2(t[3])}

\* the date of the payload parses as a timestamp
DateParses(date) == date # <<>> /\ date[1].kind = "iso"

\* the milliseconds of a timestamp text since the epoch, and its local day
\* and local time of day in a zone tzMin minutes ahead of UTC
EpochMs(iso) == (((iso.day * 24 + iso.h) * 60 + iso.m) * 60 + iso.s) * 1000 + iso.ms

LocalDay(iso, tzMin) == (EpochMs(iso) + tzMin * 60000) \div 86400000

LocalTimeOfDay(iso, tzMin) == (EpochMs(iso) + tzMin * 60000) % 86400000

\* C20: a start-time override that is not of the form H:MM or H:MM:SS with
\* hour < 24, minute < 60 and second < 60 is ignored, startedAtISO being
\* exactly the timestamp parsed from the source date; a valid override
\* replaces only the time of day (the day of the source timestamp in the
\* session's time zone is kept, the time of day there is the override's); and
\* without a parsable source date startedAtISO is undefined whatever the override.
C20_StartTimeOverride ==
    IsDef(fnResult) =>
        LET result == Val(fnResult)
            times == OverrideTimes(fnArgs.preferredStartTime)
        IN IF ~DateParses(fnArgs.date) THEN result = <<>>
           ELSE IF times = {} THEN result = fnArgs.date
           ELSE /\ result # <<>>
                /\ result[1].kind = "iso"
                /\ LocalDay(result[1], fnArgs.tzMin) = LocalDay(fnArgs.date[1], fnArgs.tzMin)
                /\ \E t \in times :
                      LocalTimeOfDay(result[1], fnArgs.tzMin)
                         = ((t[1] * 60 + t[2]) * 60 + t[3]) * 1000

\* C20 witness: the override 7:05 applied to a source timestamp late in the
\* UTC day, in a zone ahead of UTC where that is already the next day
C20_Witness ==
    /\ IsDef(fnResult)
    /\ fnArgs = [date |-> Some(IsoAt(3, 22, 30, 15)),
                 preferredStartTime |-> <<"7", ":", "0", "5">>, tzMin |-> 330]
    /\ Val(fnResult) = Some(IsoAt(4, 1, 35, 0))

-----------------------------------------------------------------------------
(* Claims relating the two encoders (checked under SpecEncode) *)

\* text is the number x written with one decimal: a whole number of tenths
\* at most half a tenth away from x
IsOneDecimalOf(text, x) ==
    /\ (10 * text.n) % text.d = 0
    /\ LET diff == QSub(text, x)
       IN 20 * Abs(diff.n) <= diff.d

\* a TCX element written with one decimal and the FIT field it mirrors:
\* both absent, or the element the one-decimal text of the field
SameToOneDecimal(element, field) ==
    IF field = <<>> THEN element = <<>>
    ELSE element # <<>> /\ IsOneDecimalOf(element[1], field[1])

\* C21: for the same (Workout, opts) the i-th FIT record and the i-th TCX
\* trackpoint have the same time offset and the same derived distance,
\* altitude, cadence and power, for every i, on the series path and on the
\* synthetic path; TCX writes distance and altitude with one decimal.
C21_RecordsMirrorTrackpoints ==
    (IsDef(fitOut) /\ IsDef(tcxOut)) =>
        LET records == FitMessages("record")
            points == Val(tcxOut).Trackpoints
        IN /\ Len(records) = Len(points)
           /\ \A i \in 1..Len(points) :
                 /\ records[i].fields.timestamp = points[i].t
                 /\ IsOneDecimalOf(points[i].DistanceMeters, records[i].fields.distance)
                 /\ SameToOneDecimal(points[i].AltitudeMeters, records[i].fields.altitude)
                 /\ records[i].fields.cadence = points[i].Cadence
                 /\ records[i].fields.power = points[i].Watts

\* C21 witness: a series exported both ways whose first point lies at 25 s
\* of 120 s with 1000 m in all, a distance of 208.33... m in the FIT record
\* and 208.3 in the trackpoint, with the point's own cadence and power absent
\* and the workout's defaults in both
C21_Witness ==
    /\ IsDef(fitOut)
    /\ IsDef(tcxOut)
    /\ hasSeries(workouts[1])
    /\ Len(Val(tcxOut).Trackpoints) = 2
    /\ Val(tcxOut).Trackpoints[1].t = Num(25)
    /\ Val(tcxOut).Trackpoints[1].DistanceMeters = Q(2083, 10)
    /\ FitMessages("record")[1].fields.distance = Q(625, 3)
    /\ Val(tcxOut).Trackpoints[1].Watts = Some(Num(181))
    /\ FitMessages("record")[1].fields.power = Some(Num(181))

-----------------------------------------------------------------------------
(* The sport classification on its own: pickSport and pickFitSport on one
   activity name, given as its characters, and source *)

\* pickFitSport testing the stair keywords before the cycling ones
pickFitSport_StairFirst(w) ==
    LET a == toLowerCase(w.activityName)
    IN IF includes(a, <<"r", "u", "n">>) THEN [sport |-> "running", subSport |-> Undef]
       ELSE IF includes(a, <<"s", "t", "a", "i", "r">>) \/ includes(a, <<"c", "l", "i", "m", "b">>)
               \/ includes(a, <<"f", "l", "o", "o", "r">>)
       THEN [sport |-> "fitness_equipment", subSport |-> Some("stair_climbing")]
       ELSE IF includes(a, <<"c", "y", "c", "l", "e">>) \/ includes(a, <<"b", "i", "k", "e">>)
               \/ includes(a, <<"r", "i", "d", "e">>)
       THEN [sport |-> "cycling", subSport |-> Undef]
       ELSE IF w.source = "indoor" THEN [sport |-> "fitness_equipment", subSport |-> Undef]
       ELSE [sport |-> "generic", subSport |-> Undef]

\* pickSport(activityName): a = (activityName || "").toLowerCase()
pickSport(activityName) ==
    LET a == toLowerCase(activityName)
    IN IF includes(a, <<"r", "u", "n">>) THEN "Running"
       ELSE IF includes(a, <<"c", "y", "c", "l", "e">>) \/ includes(a, <<"b", "i", "k", "e">>)
               \/ includes(a, <<"r", "i", "d", "e">>)
       THEN "Biking"
       ELSE "Other"

\* pickFitSport(w): reads w.activityName and w.source
pickFitSport(w) ==
    LET a == toLowerCase(w.activityName)
    IN IF includes(a, <<"r", "u", "n">>) THEN [sport |-> "running", subSport |-> Undef]
       ELSE IF includes(a, <<"c", "y", "c", "l", "e">>) \/ includes(a, <<"b", "i", "k", "e">>)
               \/ includes(a, <<"r", "i", "d", "e">>)
       THEN [sport |-> "cycling", subSport |-> Undef]
       ELSE IF includes(a, <<"s", "t", "a", "i", "r">>) \/ includes(a, <<"c", "l", "i", "m", "b">>)
               \/ includes(a, <<"f", "l", "o", "o", "r">>)
       THEN [sport |-> "fitness_equipment", subSport |-> Some("stair_climbing")]
       ELSE IF w.source = "indoor" THEN [sport |-> "fitness_equipment", subSport |-> Undef]
       ELSE [sport |-> "generic", subSport |-> Undef]

MaxWords == 2

\* the words an activity name is made of here: the keywords in mixed case,
\* words that hold a keyword inside (Trunk, Stride, Bicycle), others
NameWords ==
    {<<"R", "u", "n">>, <<"c", "y", "c", "l", "e">>, <<"B", "I", "K", "E">>,
     <<"R", "i", "d", "e">>, <<"S", "t", "a", "i", "r">>, <<"c", "l", "i", "m", "b">>,
     <<"F", "l", "o", "o", "r">>, <<"T", "r", "u", "n", "k">>,
     <<"S", "t", "r", "i", "d", "e">>, <<"B", "i", "c", "y", "c", "l", "e">>,
     <<"r", "u">>, <<"n">>, <<" ">>, <<"Y", "o", "g", "a">>}

RECURSIVE Flatten(_)
Flatten(words) == IF words = <<>> THEN <<>> ELSE Head(words) \o Flatten(Tail(words))

ActivityNames == {Flatten(ws) : ws \in BoundedSeq(NameWords, MaxWords)}

InitSport ==
    /\ pc = "call"
    /\ fnArgs \in [activityName : ActivityNames, source : {"indoor", "outdoor"}]
    /\ fnResult = [tcx |-> Undef, fit |-> Undef]
    /\ IdleApp

\* const sport = pickSport(w.activityName) of workoutToTCX
CallPickSport ==
    /\ pc = "call"
    /\ fnResult.tcx = Undef
    /\ fnResult' = [fnResult EXCEPT !.tcx = Some(pickSport(fnArgs.activityName))]
    /\ UNCHANGED <<pc, fnArgs>>
    /\ UNCHANGED idleVars

\* const sport = pickFitSport(w) of workoutToFIT
CallPickFitSport ==
    /\ pc = "call"
    /\ fnResult.fit = Undef
    /\ fnResult' = [fnResult EXCEPT !.fit = Some(pickFitSport(fnArgs))]
    /\ UNCHANGED <<pc, fnArgs>>
    /\ UNCHANGED idleVars

NextSport == CallPickSport \/ CallPickFitSport

SpecSport == InitSport /\ [][NextSport]_vars

-----------------------------------------------------------------------------
(* Claims about the sport classification (checked under SpecSport) *)

\* the name holds the word at some position, whatever the case of its letters
Mentions(name, word) ==
    \E i \in 1..Len(name) :
        /\ i + Len(word) - 1 <= Len(name)
        /\ \A j \in 1..Len(word) : LowerChar(name[i + j - 1]) = word[j]

MentionsStairs(name) ==
    \/ Mentions(name, <<"s", "t", "a", "i", "r">>)
    \/ Mentions(name, <<"c", "l", "i", "m", "b">>)
    \/ Mentions(name, <<"f", "l", "o", "o", "r">>)

\* C22: pickFitSport returns running exactly when pickSport returns Running
\* and cycling exactly when pickSport returns Biking; otherwise
\* fitness_equipment with sub-sport stair_climbing when the name contains
\* stair, climb or floor, fitness_equipment without sub-sport when the source
\* is indoor, generic in every remaining case; run wins over cycle / bike /
\* ride, which win over the stair keywords.
C22_SportClassification ==
    (IsDef(fnResult.tcx) /\ IsDef(fnResult.fit)) =>
        LET tcx == Val(fnResult.tcx)
            fit == Val(fnResult.fit)
            name == fnArgs.activityName
            cycling == Mentions(name, <<"c", "y", "c", "l", "e">>)
                          \/ Mentions(name, <<"b", "i", "k", "e">>)
                          \/ Mentions(name, <<"r", "i", "d", "e">>)
        IN /\ fit.sport = "running" <=> tcx = "Running"
           /\ fit.sport = "cycling" <=> tcx = "Biking"
           /\ Mentions(name, <<"r", "u", "n">>) => fit = [sport |-> "running", subSport |-> <<>>]
           /\ (cycling /\ ~Mentions(name, <<"r", "u", "n">>))
                 => fit = [sport |-> "cycling", subSport |-> <<>>]
           /\ tcx = "Other" =>
                 fit = IF MentionsStairs(name)
                       THEN [sport |-> "fitness_equipment", subSport |-> <<"stair_climbing">>]
                       ELSE IF fnArgs.source = "indoor"
                       THEN [sport |-> "fitness_equipment", subSport |-> <<>>]
                       ELSE [sport |-> "generic", subSport |-> <<>>]

\* C22 witness: "StairBIKE" of an indoor source is Biking and cycling, the
\* cycling keyword winning over the stair keyword
C22_Witness ==
    /\ fnArgs.activityName = <<"S", "t", "a", "i", "r", "B", "I", "K", "E">>
    /\ fnArgs.source = "indoor"
    /\ fnResult = [tcx |-> Some("Biking"), fit |-> Some([sport |-> "cycling", subSport |-> Undef])]

-----------------------------------------------------------------------------
(* One sample of analitics.samples decoded on its own *)

MaxVs == 3

\* analitics.descriptor lists {i, pr: {name, um}}: power, cadence and
\* elevation in feet; distance in km before power; a channel-less name first;
\* none
Descriptor(i, name, um) == [i |-> Some(Num(i)), name |-> Some(name), um |-> um]

DescriptorLists ==
    {<<Descriptor(0, "Power", Undef), Descriptor(1, "RPM", Undef),
       Descriptor(2, "Elevation", Some("ft"))>>,
     <<Descriptor(0, "HDistance", Some("Km")), Descriptor(1, "Power", Undef)>>,
     <<Descriptor(0, "Speed", Undef), Descriptor(1, "Floors", Undef),
       Descriptor(2, "RPM", Undef)>>,
     <<>>}

\* the entries of a vs array: a number, or null / a text that is no number
VsEntries == {Undef, Some(Num(200)), Some(Num(80))}

SampleArgs ==
    {[descriptors |-> d, sample |-> [t |-> t, vs |-> vs]] :
        d \in DescriptorLists, t \in {Undef, Some(Q(11, 2))},
        vs \in BoundedSeq(VsEntries, MaxVs)}

InitSample ==
    /\ pc = "call"
    /\ fnArgs \in SampleArgs
    /\ fnResult = Undef
    /\ IdleApp

\* for (const s of samples) { ... series.push(point) } over the one sample,
\* with no analitics.hr
CallSamplePoints ==
    /\ pc = "call"
    /\ fnResult' = Some(SamplePoints(<<>>, fnArgs.descriptors, <<fnArgs.sample>>))
    /\ pc' = "returned"
    /\ UNCHANGED fnArgs
    /\ UNCHANGED idleVars

NextSample == CallSamplePoints

SpecSample == InitSample /\ [][NextSample]_vars

-----------------------------------------------------------------------------
(* Claims about sample decoding (checked under SpecSample) *)

ChannelKeys(channel) ==
    CASE channel = "watts" -> {"power", "runningpower"}
      [] channel = "cadence" -> {"spm", "rpm", "cadence", "runningcadence"}
      [] channel = "verticalM" -> {"floors", "elevation"}

\* the positions of the vs array as the payload has it (1-based here) that
\* hold a number and whose descriptor names the channel
ChannelPositions(channel, descriptors, vs) ==
    {k \in 1..Len(vs) :
        /\ IsDef(vs[k])
        /\ IsDef(descriptorByIndex(descriptors, k - 1))
        /\ LowerCase(Val(descriptorByIndex(descriptors, k - 1))) \in ChannelKeys(channel)}

\* the value the entry at position k gives the channel
ChannelValue(channel, descriptors, vs, k) ==
    IF channel = "verticalM"
    THEN toMetersFromUnit(Val(vs[k]), descriptorUnitByIndex(descriptors, k - 1))
    ELSE Val(vs[k])

SetMax(S) == CHOOSE x \in S : \A y \in S : y <= x

\* C23: the value at position i of a sample's vs array is read with
\* descriptor i: a channel of the point is set only from the entry whose
\* position in vs has a descriptor naming that channel, also when vs holds
\* missing or non-numeric entries; a channel without such an entry stays
\* undefined.
C23_ChannelsByPosition ==
    (pc = "returned" /\ fnArgs \in SampleArgs) =>
        \A j \in 1..Len(Val(fnResult)) :
            \A channel \in {"watts", "cadence", "verticalM"} :
                LET vs == fnArgs.sample.vs
                    at == ChannelPositions(channel, fnArgs.descriptors, vs)
                IN Val(fnResult)[j][channel] =
                       IF at = {} THEN Undef
                       ELSE Some(ChannelValue(channel, fnArgs.descriptors, vs, SetMax(at)))

\* what does hold: the positional reading for the samples whose vs array
\* holds numbers only (asNumberArray then drops nothing)
PositionalWhenAllNumeric ==
    (pc = "returned" /\ \A k \in 1..Len(fnArgs.sample.vs) : IsDef(fnArgs.sample.vs[k])) =>
        \A j \in 1..Len(Val(fnResult)) :
            \A channel \in {"watts", "cadence", "verticalM"} :
                LET vs == fnArgs.sample.vs
                    at == ChannelPositions(channel, fnArgs.descriptors, vs)
                IN Val(fnResult)[j][channel] =
                       IF at = {} THEN Undef
                       ELSE Some(ChannelValue(channel, fnArgs.descriptors, vs, SetMax(at)))

-----------------------------------------------------------------------------
(* A list imported from an archive: the identifiers the indoor normaliser
   gives, the option toggles of the rows, and the download of the whole list *)

MaxFileItems == 2

\* id = String(rawRec?.id ?? `${startedAt ?? "ind"}-${idx}`): the element's own
\* id, else its start and its index in its file, kept as the parts of the text
IndoorId(startedAt, rawId, idx) ==
    IF IsDef(rawId) THEN [own |-> rawId, startedAt |-> Undef, idx |-> -1]
    ELSE [own |-> Undef, startedAt |-> startedAt, idx |-> idx]

\* uid = `indoor-${String(startedAt ?? "unknown")}-${id}-${idx}`, as its parts
IndoorUid(startedAt, rawId, idx) ==
    [source |-> "indoor", startedAt |-> startedAt,
     id |-> IndoorId(startedAt, rawId, idx), idx |-> idx]

\* the Workout of the element at index idx of its file (idx from 0), with the
\* uid and id extractWorkoutsFromIndoorJSON gives it
IdentifiedWorkout(raw, rawId, idx) ==
    LET w == IndoorWorkout(raw)
    IN [k \in DOMAIN w \cup {"uid", "id"} |->
          IF k = "uid" THEN IndoorUid(FieldOf(raw, "on"), rawId, idx)
          ELSE IF k = "id" THEN IndoorId(FieldOf(raw, "on"), rawId, idx)
          ELSE w[k]]

\* items.map((raw, idx) => ...) over one file's elements
IdentifiedWorkouts(elems) ==
    [i \in 1..Len(elems) |-> IdentifiedWorkout(elems[i].item, elems[i].id, i - 1)]

\* all.push(...extractWorkoutsFromIndoorJSON(obj)) over the files in turn
RECURSIVE ImportedList(_)
ImportedList(files) ==
    IF files = <<>> THEN <<>>
    ELSE IdentifiedWorkouts(Head(files)) \o ImportedList(Tail(files))

\* the elements of the files: with a start and an id, with a start only,
\* with neither
IdentifiedItems ==
    {[item |-> StartedItem, id |-> Some("77")],
     [item |-> StartedItem, id |-> Undef],
     [item |-> EmptyItem, id |-> Undef]}

\* archives of two indooractivities files
Archives ==
    {<<a, b>> : a \in BoundedSeq(IdentifiedItems, MaxFileItems),
                b \in BoundedSeq(IdentifiedItems, MaxFileItems)}

\* the state after onZipSelected has imported the archive
InitList ==
    /\ pc = "listed"
    /\ fnArgs \in Archives
    /\ Len(ImportedList(fnArgs)) > 0
    /\ workouts = ImportedList(fnArgs)
    /\ jsonInput = Undef
    /\ error = Undef
    /\ zipName = Some("export.zip")
    /\ didParse = TRUE
    /\ lastImportMode = Some("zip")
    /\ fitOut = Undef
    /\ tcxOut = Undef
    /\ fnResult = Undef

\* the options the rows show as checkboxes
ToggleKeys ==
    {"includeDistance", "includeHrSeries", "includePowerSeries", "includeCadenceSeries",
     "includeCalories", "includeVerticalAsAltitude"}

\* updateWorkoutOpts(w, patch): prev.map(x => x.uid === w.uid
\*   ? {...x, exportOpts: {...x.exportOpts, ...patch}} : x)
updateWorkoutOpts(prev, w, key, checked) ==
    [i \in 1..Len(prev) |->
        IF prev[i].uid = w.uid
        THEN [prev[i] EXCEPT !.exportOpts = [prev[i].exportOpts EXCEPT ![key] = checked]]
        ELSE prev[i]]

\* a checkbox of one row changes: onChange={(e) => updateWorkoutOpts(w,
\* {key: e.target.checked})}, the box showing w.exportOpts[key] before
UpdateWorkoutOpts ==
    /\ pc = "listed"
    /\ \E i \in 1..Len(workouts), key \in ToggleKeys :
          workouts' = updateWorkoutOpts(workouts, workouts[i], key,
                                        ~workouts[i].exportOpts[key])
    /\ pc' = "toggled"
    /\ UNCHANGED <<jsonInput, fitOut, tcxOut, fnArgs, fnResult>>
    /\ UNCHANGED appVars

\* the time sortedWorkouts compares: new Date(startedAtISO).getTime(), 0
\* without a start
SortTime(w) ==
    IF IsDef(w.startedAtISO) /\ IsDef(DateParse(Val(w.startedAtISO)))
    THEN Val(DateParse(Val(w.startedAtISO))) ELSE 0

\* [...workouts].sort((a, b) => tb - ta): latest first, a stable sort
RECURSIVE sortedWorkouts(_)
sortedWorkouts(ws) ==
    IF ws = <<>> THEN <<>>
    ELSE LET rest == sortedWorkouts(SubSeq(ws, 1, Len(ws) - 1))
             w == ws[Len(ws)]
             before == {i \in 1..Len(rest) : SortTime(rest[i]) >= SortTime(w)}
             k == Cardinality(before)
         IN SubSeq(rest, 1, k) \o <<w>> \o SubSeq(rest, k + 1, Len(rest))

\* safeDateToken(iso): the timestamp to the second, colons removed; the wall
\* clock's for a missing, empty or unparseable text
safeDateToken(iso, nowMs) ==
    LET parsed == IF IsDef(iso) /\ Val(iso).kind # "empty" THEN DateParse(Val(iso)) ELSE Some(nowMs)
        dt == toISOString(IF IsDef(parsed) THEN Val(parsed) ELSE nowMs)
    IN [day |-> dt.day, h |-> dt.h, m |-> dt.m, s |-> dt.s]

\* `mywellness-${w.source}-${safeDate}-${w.id}.${ext}`, as its parts
FileName(w, ext, nowMs) ==
    [source |-> w.source, safeDate |-> safeDateToken(w.startedAtISO, nowMs),
     id |-> w.id, ext |-> ext]

\* zip.file(fname, content) for each workout of the sorted list in turn: an
\* entry of the same name is replaced; the content is kept as the uid and
\* options of the workout it encodes
RECURSIVE ZipEntriesOf(_, _, _)
ZipEntriesOf(ws, ext, nowMs) ==
    IF ws = <<>> THEN <<>>
    ELSE LET w == ws[Len(ws)]
             fname == FileName(w, ext, nowMs)
             sofar == ZipEntriesOf(SubSeq(ws, 1, Len(ws) - 1), ext, nowMs)
             entry == [name |-> fname, of |-> w.uid, opts |-> w.exportOpts]
         IN IF \E i \in 1..Len(sofar) : sofar[i].name = fname
            THEN [i \in 1..Len(sofar) |-> IF sofar[i].name = fname THEN entry ELSE sofar[i]]
            ELSE Append(sofar, entry)

\* downloadAllAsZip() in either format
DownloadAllAsZip ==
    /\ pc \in {"listed", "toggled"}
    /\ \E ext \in {"fit", "tcx"}, nowMs \in Clock :
          fnResult' = Some(ZipEntriesOf(sortedWorkouts(workouts), ext, nowMs))
    /\ pc' = "archived"
    /\ UNCHANGED <<jsonInput, workouts, fitOut, tcxOut, fnArgs>>
    /\ UNCHANGED appVars

NextList == UpdateWorkoutOpts \/ DownloadAllAsZip

SpecList == InitList /\ [][NextList]_vars

-----------------------------------------------------------------------------
(* Claims about the imported list (checked under SpecList) *)

\* the list with the one option of the one workout at position i changed
OneToggled(ws, i, key) ==
    [j \in 1..Len(ws) |->
        IF j = i
        THEN [ws[j] EXCEPT !.exportOpts = [ws[j].exportOpts EXCEPT ![key] = ~ws[j].exportOpts[key]]]
        ELSE ws[j]]

\* C24: updateWorkoutOpts(w, patch) changes the patched exportOpts keys of
\* exactly the one workout the user toggled; every other field of that
\* workout and every other workout of the list, its exportOpts included, is
\* unchanged.
C24_ToggleChangesOneWorkout ==
    [][UpdateWorkoutOpts =>
          \E i \in 1..Len(workouts), key \in ToggleKeys :
              workouts' = OneToggled(workouts, i, key)]_vars

\* what does hold: a toggle changes nothing but exportOpts, and the
\* exportOpts of no workout with another uid
ToggleChangesOptionsOfOneUid ==
    [][UpdateWorkoutOpts =>
          /\ Len(workouts') = Len(workouts)
          /\ \E i \in 1..Len(workouts) :
                \A j \in 1..Len(workouts) :
                    /\ [workouts'[j] EXCEPT !.exportOpts = workouts[j].exportOpts] = workouts[j]
                    /\ workouts[j].uid # workouts[i].uid => workouts'[j] = workouts[j]]_vars

\* C30: downloadAllAsZip writes one archive entry per workout: the filenames
\* of distinct workouts of an imported list are distinct, so the archive has
\* as many entries as the list has workouts.
C30_OneEntryPerWorkout ==
    pc = "archived" => Len(Val(fnResult)) = Len(workouts)

-----------------------------------------------------------------------------
(* Claims about the encoders' inputs (checked under SpecEncode) *)

-----------------------------------------------------------------------------
(* onZipSelected on archives of entries of many names *)

MaxArchiveEntries == 2

\* entries that are lists of workouts whatever their names, and one that is
\* the indoor list by name
ArchiveEntries ==
    {[name |-> "Export/IndoorActivities-3.JSON",
      text |-> "[{\"on\":\"1970-01-04T06:00:00.000Z\",\"performedData\":{\"pr\":[{\"n\":\"MaxHr\",\"v\":150}]}}]"],
     [name |-> "indooractivities-2.json", text |-> "[]"],
     [name |-> "masterdata.json", text |-> "[null,{}]"],
     [name |-> "biometrics-1.json", text |-> "[null,{}]"],
     [name |-> "indooractivities-5.json.bak", text |-> "[null,{}]"],
     [name |-> "indooractivities-old/outdooractivities-1.json", text |-> "[null,{}]"],
     [name |-> "my-indooractivities-6.json", text |-> "[null,{}]"]}

ArchiveFiles ==
    {Some([name |-> n, loads |-> TRUE, entries |-> e]) :
        n \in {"export.zip", "EXPORT.ZIP"}, e \in BoundedSeq(ArchiveEntries, MaxArchiveEntries)}

\* the user chooses one of the archives
SelectArchive ==
    /\ pc = "input"
    /\ \E file \in ArchiveFiles : ZipSelected(file)

NextArchive == SelectArchive

SpecArchive == InitImport /\ [][NextArchive]_vars

-----------------------------------------------------------------------------
(* Claims about the archive's entries (checked under SpecArchive) *)

\* the name has a last path segment that, in lower case, begins with
\* indooractivities- and ends with .json
NamesIndoorActivities(name) ==
    LET c == Chars(name)
        prefix == <<"i", "n", "d", "o", "o", "r", "a", "c", "t", "i", "v", "i", "t", "i", "e", "s", "-">>
        suffix == <<".", "j", "s", "o", "n">>
    IN \E k \in 0..Len(c) :
          /\ k = 0 \/ c[k] = "/"
          /\ \A i \in (k + 1)..Len(c) : c[i] # "/"
          /\ Len(c) - k >= Len(prefix)
          /\ Len(c) - k >= Len(suffix)
          /\ \A i \in 1..Len(prefix) : LowerChar(c[k + i]) = prefix[i]
          /\ \A i \in 1..Len(suffix) : LowerChar(c[Len(c) - Len(suffix) + i]) = suffix[i]

-----------------------------------------------------------------------------
(* Claims about the heart rate of an extracted workout, encoded (checked
   under Spec) *)

\* C27: for a workout extractWorkoutFromSinglePageJSON produced, encoded
\* with includeHrSeries true, the heart_rate of the i-th FIT record equals the
\* hr of the i-th sorted series point: the FIT-side interpolation and the
\* forward-fill pass change no value, and the TCX trackpoints carry the same.
C27_FitHrIsSeriesHr ==
    (IsDef(jsonInput) /\ pc = "exported" /\ hasSeries(workouts[1])) =>
        LET w == workouts[1]
            opts == [w.exportOpts EXCEPT !.includeHrSeries = TRUE]
            sortedSeries == SortByTSec(w.series)
            records == FitRecords(w, opts)
            points == TcxPoints(w, opts)
        IN /\ Len(records) = Len(sortedSeries)
           /\ Len(points) = Len(sortedSeries)
           /\ \A i \in 1..Len(sortedSeries) :
                 /\ records[i].hr = sortedSeries[i].hr
                 /\ points[i].HeartRateBpm = sortedSeries[i].hr
           /\ (IsDef(fitOut) /\ w.exportOpts.includeHrSeries) =>
                 \A i \in 1..Len(sortedSeries) :
                     FitMessages("record")[i].fields.heart_rate = sortedSeries[i].hr

\* C27 witness: a pasted payload with anchors 100 at 0 s and 140 at 10 s and
\* samples at 0, 5 and 10 s, exported to FIT: the records carry 100, 120, 140
C27_Witness ==
    /\ IsDef(jsonInput)
    /\ IsDef(fitOut)
    /\ workouts[1].exportOpts.includeHrSeries
    /\ Len(workouts[1].series) = 3
    /\ workouts[1].series[2].tSec = Num(5)
    /\ workouts[1].series[2].hr = Some(Num(120))
    /\ Len(FitMessages("record")) = 3
    /\ FitMessages("record")[1].fields.heart_rate = Some(Num(100))
    /\ FitMessages("record")[2].fields.heart_rate = Some(Num(120))
    /\ FitMessages("record")[3].fields.heart_rate = Some(Num(140))

-----------------------------------------------------------------------------
(* Claims about the total time of a workout without a series (checked
   under Spec) *)

\* C29: for a workout without a series and with rounded duration D >= 1,
\* the total time workoutToFIT writes to lap, session and activity equals D,
\* the value workoutToTCX writes as TotalTimeSeconds, and the last synthetic
\* point lies at offset D.
C29_TotalTimeIsDuration ==
    (pc = "exported" /\ ~hasSeries(workouts[1]) /\ QLe(Num(1), totalSeconds(workouts[1]))) =>
        LET D == totalSeconds(workouts[1])
        IN /\ IsDef(fitOut) =>
                 /\ FitMessages("lap")[1].fields.total_elapsed_time = D
                 /\ FitMessages("lap")[1].fields.total_timer_time = D
                 /\ FitMessages("session")[1].fields.total_elapsed_time = D
                 /\ FitMessages("session")[1].fields.total_timer_time = D
                 /\ FitMessages("activity")[1].fields.total_timer_time = D
                 /\ FitMessages("record")[Len(FitMessages("record"))].fields.timestamp = D
           /\ IsDef(tcxOut) =>
                 /\ Val(tcxOut).TotalTimeSeconds = D
                 /\ Val(tcxOut).Trackpoints[Len(Val(tcxOut).Trackpoints)].t = D

\* what does hold: the total time of a workout without a series is the
\* offset of the last synthetic point, at least 1, and no later than D
TotalTimeIsLastOffset ==
    (pc = "exported" /\ ~hasSeries(workouts[1]) /\ QLe(Num(1), totalSeconds(workouts[1]))) =>
        LET D == totalSeconds(workouts[1])
        IN /\ IsDef(fitOut) =>
                 LET last == FitMessages("record")[Len(FitMessages("record"))].fields.timestamp
                 IN /\ FitMessages("lap")[1].fields.total_elapsed_time = last
                    /\ FitMessages("session")[1].fields.total_timer_time = last
                    /\ FitMessages("activity")[1].fields.total_timer_time = last
                    /\ QLe(Num(1), last)
                    /\ QLe(last, D)
           /\ IsDef(tcxOut) => Val(tcxOut).TotalTimeSeconds = D

-----------------------------------------------------------------------------
(* The import handlers interleaved: onZipSelected suspends at
   await JSZip.loadAsync(file) and at each await zip.files[name].async(
   "string"); while it is suspended the user can choose another file or
   press Process Workout. fnArgs holds the calls of onZipSelected in flight *)

MaxInFlight == 2

\* the files chosen: none, one that is no .zip, one JSZip cannot load, an
\* archive without a target entry, one whose target holds no workout, one
\* with a workout, one with an unparseable target and a workout
RaceFiles ==
    {Undef,
     Some([name |-> "notes.txt", loads |-> TRUE, entries |-> <<>>]),
     Some([name |-> "broken.zip", loads |-> FALSE, entries |-> <<>>])}
      \cup {Some([name |-> "export.zip", loads |-> TRUE, entries |-> e]) :
               e \in {<<[name |-> "masterdata.json", text |-> "[null,{}]"]>>,
                      <<[name |-> "indooractivities-2.json", text |-> "[]"]>>,
                      <<[name |-> "Export/IndoorActivities-3.JSON",
                         text |-> "[{\"on\":\"1970-01-04T06:00:00.000Z\",\"performedData\":{\"pr\":[{\"n\":\"MaxHr\",\"v\":150}]}}]"]>>,
                      <<[name |-> "indooractivities-1.json", text |-> "{oops"],
                        [name |-> "Export/IndoorActivities-3.JSON",
                         text |-> "[{\"on\":\"1970-01-04T06:00:00.000Z\",\"performedData\":{\"pr\":[{\"n\":\"MaxHr\",\"v\":150}]}}]"]>>}}

\* the call at position i of those in flight removed
Without(calls, i) == SubSeq(calls, 1, i - 1) \o SubSeq(calls, i + 1, Len(calls))

\* onZipSelected(file) up to its first await: resetParsedState(), the
\* checks of the file, setIsLoading(true), JSZip.loadAsync(file) started
ZipSelectedStart ==
    /\ Len(fnArgs) < MaxInFlight
    /\ \E file \in RaceFiles :
          /\ workouts' = <<>>
          /\ zipName' = Undef
          /\ didParse' = FALSE
          /\ lastImportMode' = Undef
          /\ error' = IF IsDef(file) /\ ~EndsWithZip(Val(file).name)
                      THEN Some("Please choose a .zip file exported from MyWellness.")
                      ELSE Undef
          /\ fnArgs' = IF IsDef(file) /\ EndsWithZip(Val(file).name)
                       THEN Append(fnArgs, [file |-> Val(file), stage |-> "load", k |-> 0,
                                            all |-> <<>>])
                       ELSE fnArgs
    /\ UNCHANGED <<pc, jsonInput, fitOut, tcxOut, fnResult>>

\* a call resumes after loadAsync: the catch when it threw; else
\* setZipName(file.name), the filter, and the error and return when no entry
\* matches, or the first entry's read started
ZipLoaded ==
    \E i \in 1..Len(fnArgs) :
        LET call == fnArgs[i]
            targets == targetNames(call.file.entries)
        IN /\ call.stage = "load"
           /\ zipName' = IF call.file.loads THEN Some(call.file.name) ELSE zipName
           /\ error' =
                IF ~call.file.loads THEN Some("Failed to read ZIP: Error")
                ELSE IF Len(targets) = 0
                THEN Some("Could not find indooractivities-*.json in this ZIP. Make sure it's a full MyWellness export.")
                ELSE error
           /\ fnArgs' = IF call.file.loads /\ Len(targets) > 0
                        THEN [fnArgs EXCEPT ![i] = [call EXCEPT !.stage = "read", !.k = 1]]
                        ELSE Without(fnArgs, i)
           /\ UNCHANGED <<pc, jsonInput, workouts, didParse, lastImportMode,
                          fitOut, tcxOut, fnResult>>

\* a call resumes after the read of its k-th target entry: the entry's
\* workouts are pushed (none when JSON.parse throws); after the last entry
\* the error for an empty result, or setWorkouts(all), setDidParse(true),
\* setLastImportMode("zip")
ZipEntryRead ==
    \E i \in 1..Len(fnArgs) :
        LET call == fnArgs[i]
            targets == targetNames(call.file.entries)
            found == call.all \o all(<<targets[call.k]>>)
            last == call.k = Len(targets)
        IN /\ call.stage = "read"
           /\ error' =
                IF last /\ Len(found) = 0
                THEN Some("Found activity files but couldn't parse any workouts. The export schema may differ.")
                ELSE error
           /\ workouts' = IF last /\ Len(found) > 0 THEN found ELSE workouts
           /\ didParse' = IF last /\ Len(found) > 0 THEN TRUE ELSE didParse
           /\ lastImportMode' = IF last /\ Len(found) > 0 THEN Some("zip") ELSE lastImportMode
           /\ fnArgs' = IF last THEN Without(fnArgs, i)
                        ELSE [fnArgs EXCEPT ![i] = [call EXCEPT !.k = call.k + 1, !.all = found]]
           /\ UNCHANGED <<pc, jsonInput, zipName, fitOut, tcxOut, fnResult>>

\* onParsePastedJson(), which never suspends, run while calls are in flight
ProcessWorkout ==
    LET text == Trim(jsonInput)
        parsed == JSONParse(text)
        ok == text # "" /\ IsDef(parsed) /\ Val(parsed).isObject
    IN /\ error' =
            IF text = ""
            THEN Some("Paste a JSON object from a single MyWellness Training Workout page first.")
            ELSE IF ~IsDef(parsed) THEN Some("Invalid JSON: SyntaxError")
            ELSE IF ~Val(parsed).isObject
            THEN Some("Couldn't find a supported single-workout payload in this JSON.")
            ELSE Undef
       /\ workouts' =
            IF ok THEN <<extractWorkoutFromSinglePageJSON(Val(parsed).core, DefaultStartTime,
                                                          SessionZoneMin)>>
            ELSE <<>>
       /\ zipName' = IF ok THEN Some("mywellness-single-workout") ELSE Undef
       /\ didParse' = ok
       /\ lastImportMode' = IF ok THEN Some("json") ELSE Undef
       /\ UNCHANGED <<pc, jsonInput, fitOut, tcxOut, fnArgs, fnResult>>

NextInterleaved ==
    SetJsonInput \/ ZipSelectedStart \/ ZipLoaded \/ ZipEntryRead \/ ProcessWorkout

SpecInterleaved == InitImport /\ [][NextInterleaved]_vars

-----------------------------------------------------------------------------
(* Claims about interleaved imports (checked under SpecInterleaved) *)

\* C28: under any interleaving of import calls, once no import is in
\* flight: if error is non-null then workouts is empty and didParse is
\* false; an import that ends in an error never leaves workouts from that or
\* another import in the list.
C28_ErrorMeansNoWorkouts ==
    (fnArgs = <<>> /\ error # <<>>) => (workouts = <<>> /\ didParse = FALSE)

\* what does hold: the same of imports run one at a time, each to its end
ErrorMeansNoWorkoutsInTurn ==
    (pc \in {"pasted", "zipped"} /\ error # <<>>) => (workouts = <<>> /\ didParse = FALSE)

====
